---- MODULE Spec2Model ----
(***************************************************************************)
(* The asset algebra of agora (src/src/agora/_asset.py): the nine asset    *)
(* variants, referenced_target_ids, simplify, lower_bound / upper_bound,   *)
(* and the asset_to_str / str_to_asset codec.                              *)
(*                                                                         *)
(* A Fraction is the pair <<numerator, denominator>> in lowest terms with  *)
(* a positive denominator, as fractions.Fraction stores it.  An asset is a *)
(* record whose tag is the Python class name and whose other fields are    *)
(* the attributes that class's __init__ sets.                              *)
(***************************************************************************)
EXTENDS Integers, Sequences, FiniteSets, TLC

VARIABLES asset, target_success, watermark_time, last, client

vars == <<asset, target_success, watermark_time, last, client>>

\* the process has constructed no AgoraClient
NoClient == [class |-> "none"]

----------------------------------------------------------------------------
(* fractions.Fraction: exact rational arithmetic                           *)

\* The arithmetic is written as functions of values, so that each operand
\* is evaluated once, and wrapped in operators for use below.

Abs(n) == IF n < 0 THEN -n ELSE n

gcd[a \in Nat, b \in Nat] == IF b = 0 THEN a ELSE gcd[b, a % b]

\* Fraction(n, d) for d # 0: lowest terms, the sign carried by the numerator
normalised[n \in Int, d \in Int] ==
    LET g == gcd[Abs(n), Abs(d)]
        s == IF d < 0 THEN -1 ELSE 1
    IN  <<(s * n) \div g, (s * d) \div g>>

Fraction(n, d) == normalised[n, d]

F(n) == <<n, 1>>

Fractions == Int \X Int

add[a \in Fractions, b \in Fractions] ==
    normalised[a[1] * b[2] + b[1] * a[2], a[2] * b[2]]

neg[a \in Fractions] == <<-a[1], a[2]>>

mul[a \in Fractions, b \in Fractions] == normalised[a[1] * b[1], a[2] * b[2]]

\* a / b for b # 0
div[a \in Fractions, b \in Fractions] == normalised[a[1] * b[2], a[2] * b[1]]

le[a \in Fractions, b \in Fractions] == a[1] * b[2] <= b[1] * a[2]

lt[a \in Fractions, b \in Fractions] == a[1] * b[2] < b[1] * a[2]

FAdd(a, b) == add[a, b]
FNeg(a) == neg[a]
FSub(a, b) == add[a, neg[b]]
FMul(a, b) == mul[a, b]
FDiv(a, b) == div[a, b]
FLe(a, b) == le[a, b]
FLt(a, b) == lt[a, b]

max2[a \in Fractions, b \in Fractions] == IF lt[a, b] THEN b ELSE a

min2[a \in Fractions, b \in Fractions] == IF lt[b, a] THEN b ELSE a

FMax2(a, b) == max2[a, b]
FMin2(a, b) == min2[a, b]

\* max(list) / min(list) of a non-empty list of Fractions
RECURSIVE FMax(_)
FMax(s) == IF Len(s) = 1 THEN s[1] ELSE FMax2(s[1], FMax(Tail(s)))

RECURSIVE FMin(_)
FMin(s) == IF Len(s) = 1 THEN s[1] ELSE FMin2(s[1], FMin(Tail(s)))

\* sum(list, Fraction(0))
RECURSIVE FSum(_)
FSum(s) == IF s = <<>> THEN F(0) ELSE FAdd(s[1], FSum(Tail(s)))

----------------------------------------------------------------------------
(* The asset classes: one constructor per __init__                         *)

\* a failed assert: the one every simplify starts with,
\* referenced_target_ids().issubset(target_success.keys()), and those of
\* the constructors
AssertionError == [tag |-> "AssertionError"]

ConstantAsset(constant) == [tag |-> "ConstantAsset", constant |-> constant]

SatisfiedByAsset(target, stop_time) ==
    [tag |-> "SatisfiedByAsset", target |-> target, stop_time |-> stop_time]

AgentsSatisfyByAsset(target, agent_ids, stop_time) ==
    [tag |-> "AgentsSatisfyByAsset", target |-> target,
     agent_ids |-> agent_ids, stop_time |-> stop_time]

TimeRemainingAsset(target, stop_time) ==
    [tag |-> "TimeRemainingAsset", target |-> target, stop_time |-> stop_time]

\* MaxAsset.__init__ without its assert
MaxAsset_unchecked(assets) == [tag |-> "MaxAsset", assets |-> assets]

\* assert len(assets) > 0
MaxAsset(assets) ==
    IF Len(assets) > 0 THEN [tag |-> "MaxAsset", assets |-> assets] ELSE AssertionError

\* assert len(assets) > 0
MinAsset(assets) ==
    IF Len(assets) > 0 THEN [tag |-> "MinAsset", assets |-> assets] ELSE AssertionError

\* terms: a list of <<coefficient, asset>> pairs, possibly empty
LinearCombinationAsset(terms) == [tag |-> "LinearCombinationAsset", terms |-> terms]

PriceySatisfiedByAsset(target, stop_time, price) ==
    [tag |-> "PriceySatisfiedByAsset", target |-> target,
     stop_time |-> stop_time, price |-> price]

\* assert stop_time > break_even_time; assert max_loss > 0
PriceyTimeRemainingAsset(target, break_even_time, stop_time, max_loss) ==
    IF FLt(break_even_time, stop_time) /\ FLt(F(0), max_loss)
    THEN [tag |-> "PriceyTimeRemainingAsset", target |-> target,
          break_even_time |-> break_even_time, stop_time |-> stop_time,
          max_loss |-> max_loss]
    ELSE AssertionError

IsConstant(a) == a.tag = "ConstantAsset"

LeafTags == {"SatisfiedByAsset", "AgentsSatisfyByAsset", "TimeRemainingAsset",
             "PriceySatisfiedByAsset", "PriceyTimeRemainingAsset"}

ListTags == {"MaxAsset", "MinAsset"}

AssetTags == LeafTags \cup ListTags \cup {"ConstantAsset", "LinearCombinationAsset"}

\* a call returned an asset and did not raise
IsAsset(r) == r.tag \in AssetTags

----------------------------------------------------------------------------
(* referenced_target_ids                                                   *)

RECURSIVE referenced_target_ids(_)
referenced_target_ids(a) ==
    CASE a.tag = "ConstantAsset" -> {}
      [] a.tag \in LeafTags -> {a.target}
      [] a.tag \in ListTags ->
            UNION {referenced_target_ids(a.assets[i]) : i \in 1..Len(a.assets)}
      [] a.tag = "LinearCombinationAsset" ->
            UNION {referenced_target_ids(a.terms[i][2]) : i \in 1..Len(a.terms)}

----------------------------------------------------------------------------
(* A resolution fact target_success[t]: None, or (proven_time, author)     *)

None == [resolved |-> FALSE]

Proven(proven_time, author) ==
    [resolved |-> TRUE, proven_time |-> proven_time, author |-> author]

\* the author of a fact whose resolver is absent (Python None): no agent id
NoAuthor == "<None>"

\* author in agent_ids
InList(x, s) == \E i \in 1..Len(s) : s[i] = x

----------------------------------------------------------------------------
(* simplify, one operator per class; the assert each class starts with is  *)
(* evaluated by simplify below before it dispatches on the class           *)

\* SatisfiedByAsset.simplify with a proof after stop_time left to the
\* watermark check instead of returning 0
SatisfiedByAsset_simplify_late(self, ts, w) ==
    LET target_result == ts[self.target]
    IN  IF target_result.resolved /\ FLe(target_result.proven_time, self.stop_time)
        THEN ConstantAsset(F(1))
        ELSE IF FLt(self.stop_time, w)
             THEN ConstantAsset(F(0))
             ELSE self

\* SatisfiedByAsset.simplify with watermark_time >= self.stop_time as the
\* deadline test
SatisfiedByAsset_simplify_atdeadline(self, ts, w) ==
    LET target_result == ts[self.target]
    IN  IF target_result.resolved
        THEN IF FLe(target_result.proven_time, self.stop_time)
             THEN ConstantAsset(F(1))
             ELSE ConstantAsset(F(0))
        ELSE IF FLe(self.stop_time, w)
             THEN ConstantAsset(F(0))
             ELSE self

SatisfiedByAsset_simplify(self, ts, w) ==
    LET target_result == ts[self.target]
    IN  IF target_result.resolved
        THEN IF FLe(target_result.proven_time, self.stop_time)
             THEN ConstantAsset(F(1))
             ELSE ConstantAsset(F(0))
        ELSE IF FLt(self.stop_time, w)
             THEN ConstantAsset(F(0))
             ELSE self

\* AgentsSatisfyByAsset.simplify with the unchanged asset rebuilt from its
\* fields, the first agent id passed where the target belongs
AgentsSatisfyByAsset_simplify_retarget(self, ts, w) ==
    LET target_result == ts[self.target]
    IN  IF target_result.resolved
        THEN IF /\ FLe(target_result.proven_time, self.stop_time)
                /\ InList(target_result.author, self.agent_ids)
             THEN ConstantAsset(F(1))
             ELSE ConstantAsset(F(0))
        ELSE IF FLt(self.stop_time, w)
             THEN ConstantAsset(F(0))
             ELSE IF self.agent_ids = <<>>
                  THEN self
                  ELSE AgentsSatisfyByAsset(self.agent_ids[1], self.agent_ids,
                                            self.stop_time)

\* AgentsSatisfyByAsset.simplify with the watermark check ahead of the
\* resolution
AgentsSatisfyByAsset_simplify_watermark_first(self, ts, w) ==
    LET target_result == ts[self.target]
    IN  IF FLt(self.stop_time, w)
        THEN ConstantAsset(F(0))
        ELSE IF target_result.resolved
             THEN IF /\ FLe(target_result.proven_time, self.stop_time)
                     /\ InList(target_result.author, self.agent_ids)
                  THEN ConstantAsset(F(1))
                  ELSE ConstantAsset(F(0))
             ELSE self

\* AgentsSatisfyByAsset.simplify without the test author in self.agent_ids
AgentsSatisfyByAsset_simplify_anyauthor(self, ts, w) ==
    LET target_result == ts[self.target]
    IN  IF target_result.resolved
        THEN IF FLe(target_result.proven_time, self.stop_time)
             THEN ConstantAsset(F(1))
             ELSE ConstantAsset(F(0))
        ELSE IF FLt(self.stop_time, w)
             THEN ConstantAsset(F(0))
             ELSE self

AgentsSatisfyByAsset_simplify(self, ts, w) ==
    LET target_result == ts[self.target]
    IN  IF target_result.resolved
        THEN IF /\ FLe(target_result.proven_time, self.stop_time)
                /\ InList(target_result.author, self.agent_ids)
             THEN ConstantAsset(F(1))
             ELSE ConstantAsset(F(0))
        ELSE IF FLt(self.stop_time, w)
             THEN ConstantAsset(F(0))
             ELSE self

\* TimeRemainingAsset.simplify without the proven_time <= stop_time test
TimeRemainingAsset_simplify_unchecked(self, ts, w) ==
    LET target_result == ts[self.target]
    IN  IF target_result.resolved
        THEN ConstantAsset(FSub(self.stop_time, target_result.proven_time))
        ELSE IF FLt(self.stop_time, w)
             THEN ConstantAsset(F(0))
             ELSE self

\* TimeRemainingAsset.simplify returning stop_time, the proven time not
\* subtracted
TimeRemainingAsset_simplify_whole(self, ts, w) ==
    LET target_result == ts[self.target]
    IN  IF target_result.resolved
        THEN IF FLe(target_result.proven_time, self.stop_time)
             THEN ConstantAsset(self.stop_time)
             ELSE ConstantAsset(F(0))
        ELSE IF FLt(self.stop_time, w)
             THEN ConstantAsset(F(0))
             ELSE self

TimeRemainingAsset_simplify(self, ts, w) ==
    LET target_result == ts[self.target]
    IN  IF target_result.resolved
        THEN IF FLe(target_result.proven_time, self.stop_time)
             THEN ConstantAsset(FSub(self.stop_time, target_result.proven_time))
             ELSE ConstantAsset(F(0))
        ELSE IF FLt(self.stop_time, w)
             THEN ConstantAsset(F(0))
             ELSE self

\* PriceySatisfiedByAsset.simplify without the watermark check
PriceySatisfiedByAsset_simplify_nodeadline(self, ts, w) ==
    LET target_result == ts[self.target]
    IN  IF target_result.resolved
        THEN IF FLe(target_result.proven_time, self.stop_time)
             THEN ConstantAsset(FSub(F(1), self.price))
             ELSE ConstantAsset(FNeg(self.price))
        ELSE self

PriceySatisfiedByAsset_simplify(self, ts, w) ==
    LET target_result == ts[self.target]
    IN  IF target_result.resolved
        THEN IF FLe(target_result.proven_time, self.stop_time)
             THEN ConstantAsset(FSub(F(1), self.price))
             ELSE ConstantAsset(FNeg(self.price))
        ELSE IF FLt(self.stop_time, w)
             THEN ConstantAsset(FNeg(self.price))
             ELSE self

\* PriceyTimeRemainingAsset.simplify with watermark_time >= self.stop_time as
\* the deadline test
PriceyTimeRemainingAsset_simplify_atdeadline(self, ts, w) ==
    LET target_result == ts[self.target]
    IN  IF target_result.resolved
        THEN IF FLe(target_result.proven_time, self.stop_time)
             THEN LET time_remaining ==
                          FMax2(FSub(self.stop_time, target_result.proven_time), F(0))
                      value ==
                          FMul(self.max_loss,
                               FSub(FDiv(time_remaining,
                                         FSub(self.stop_time, self.break_even_time)),
                                    F(1)))
                  IN  ConstantAsset(value)
             ELSE ConstantAsset(FNeg(self.max_loss))
        ELSE IF FLe(self.stop_time, w)
             THEN ConstantAsset(FNeg(self.max_loss))
             ELSE self

\* PriceyTimeRemainingAsset.simplify dividing by stop_time, break_even_time
\* left out
PriceyTimeRemainingAsset_simplify_nobreakeven(self, ts, w) ==
    LET target_result == ts[self.target]
    IN  IF target_result.resolved
        THEN IF FLe(target_result.proven_time, self.stop_time)
             THEN LET time_remaining ==
                          FMax2(FSub(self.stop_time, target_result.proven_time), F(0))
                      value ==
                          FMul(self.max_loss,
                               FSub(FDiv(time_remaining, self.stop_time), F(1)))
                  IN  ConstantAsset(value)
             ELSE ConstantAsset(FNeg(self.max_loss))
        ELSE IF FLt(self.stop_time, w)
             THEN ConstantAsset(FNeg(self.max_loss))
             ELSE self

PriceyTimeRemainingAsset_simplify(self, ts, w) ==
    LET target_result == ts[self.target]
    IN  IF target_result.resolved
        THEN IF FLe(target_result.proven_time, self.stop_time)
             THEN LET time_remaining ==
                          FMax2(FSub(self.stop_time, target_result.proven_time), F(0))
                      value ==
                          FMul(self.max_loss,
                               FSub(FDiv(time_remaining,
                                         FSub(self.stop_time, self.break_even_time)),
                                    F(1)))
                  IN  ConstantAsset(value)
             ELSE ConstantAsset(FNeg(self.max_loss))
        ELSE IF FLt(self.stop_time, w)
             THEN ConstantAsset(FNeg(self.max_loss))
             ELSE self

AllConstant(s) == \A i \in 1..Len(s) : IsConstant(s[i])

Constants(s) == [i \in 1..Len(s) |-> s[i].constant]

\* MaxAsset.simplify without the collapse of constant children
MaxAsset_collapse_never(simplified_assets) == MaxAsset(simplified_assets)

\* MaxAsset.simplify once the children are simplified
MaxAsset_collapse(simplified_assets) ==
    IF AllConstant(simplified_assets)
    THEN ConstantAsset(FMax(Constants(simplified_assets)))
    ELSE MaxAsset(simplified_assets)

\* MinAsset.simplify folding away the constant children of a list that also
\* holds a child that is not constant
MinAsset_collapse_partial(simplified_assets) ==
    IF AllConstant(simplified_assets)
    THEN ConstantAsset(FMin(Constants(simplified_assets)))
    ELSE MinAsset(SelectSeq(simplified_assets, LAMBDA child : ~IsConstant(child)))

\* MinAsset.simplify once the children are simplified
MinAsset_collapse(simplified_assets) ==
    IF AllConstant(simplified_assets)
    THEN ConstantAsset(FMin(Constants(simplified_assets)))
    ELSE MinAsset(simplified_assets)

\* LinearCombinationAsset.simplify collapsing only a non-empty list of terms
LinearCombinationAsset_collapse_nonempty(simplified_terms) ==
    IF /\ simplified_terms # <<>>
       /\ \A i \in 1..Len(simplified_terms) : IsConstant(simplified_terms[i][2])
    THEN ConstantAsset(FSum([i \in 1..Len(simplified_terms) |->
                FMul(simplified_terms[i][1], simplified_terms[i][2].constant)]))
    ELSE LinearCombinationAsset(simplified_terms)

\* LinearCombinationAsset.simplify summing the values, the coefficients left
\* out
LinearCombinationAsset_collapse_unweighted(simplified_terms) ==
    IF \A i \in 1..Len(simplified_terms) : IsConstant(simplified_terms[i][2])
    THEN ConstantAsset(FSum([i \in 1..Len(simplified_terms) |->
                simplified_terms[i][2].constant]))
    ELSE LinearCombinationAsset(simplified_terms)

\* LinearCombinationAsset.simplify once the terms are simplified
LinearCombinationAsset_collapse(simplified_terms) ==
    IF \A i \in 1..Len(simplified_terms) : IsConstant(simplified_terms[i][2])
    THEN ConstantAsset(FSum([i \in 1..Len(simplified_terms) |->
                FMul(simplified_terms[i][1], simplified_terms[i][2].constant)]))
    ELSE LinearCombinationAsset(simplified_terms)

\* Each composite binds the list of its simplified children once, as the
\* comprehension assigned to simplified_assets / simplified_terms does, and
\* hands it to the class's collapse.  This is simplify after its assert:
\* the assert of a child follows from its parent's, the child's targets
\* being among the parent's.
RECURSIVE simplify_class(_, _, _)

\* simplify with MaxAsset and MinAsset testing self.assets, the children
\* before their simplification, for constants
simplify_class_stale(a, ts, w) ==
    CASE a.tag = "ConstantAsset" -> a
      [] a.tag = "SatisfiedByAsset" -> SatisfiedByAsset_simplify(a, ts, w)
      [] a.tag = "AgentsSatisfyByAsset" -> AgentsSatisfyByAsset_simplify(a, ts, w)
      [] a.tag = "TimeRemainingAsset" -> TimeRemainingAsset_simplify(a, ts, w)
      [] a.tag = "PriceySatisfiedByAsset" -> PriceySatisfiedByAsset_simplify(a, ts, w)
      [] a.tag = "PriceyTimeRemainingAsset" ->
            PriceyTimeRemainingAsset_simplify(a, ts, w)
      [] a.tag \in ListTags ->
            CHOOSE r \in {IF AllConstant(a.assets)
                          THEN IF a.tag = "MaxAsset"
                               THEN MaxAsset_collapse(simplified_assets)
                               ELSE MinAsset_collapse(simplified_assets)
                          ELSE [tag |-> a.tag, assets |-> simplified_assets] :
                simplified_assets \in
                    {[i \in 1..Len(a.assets) |-> simplify_class(a.assets[i], ts, w)]}} : TRUE
      [] a.tag = "LinearCombinationAsset" ->
            CHOOSE r \in {LinearCombinationAsset_collapse(simplified_terms) :
                simplified_terms \in
                    {[i \in 1..Len(a.terms) |->
                        <<a.terms[i][1], simplify_class(a.terms[i][2], ts, w)>>]}} : TRUE

simplify_class(a, ts, w) ==
    CASE a.tag = "ConstantAsset" -> a
      [] a.tag = "SatisfiedByAsset" -> SatisfiedByAsset_simplify(a, ts, w)
      [] a.tag = "AgentsSatisfyByAsset" -> AgentsSatisfyByAsset_simplify(a, ts, w)
      [] a.tag = "TimeRemainingAsset" -> TimeRemainingAsset_simplify(a, ts, w)
      [] a.tag = "PriceySatisfiedByAsset" -> PriceySatisfiedByAsset_simplify(a, ts, w)
      [] a.tag = "PriceyTimeRemainingAsset" ->
            PriceyTimeRemainingAsset_simplify(a, ts, w)
      [] a.tag = "MaxAsset" ->
            CHOOSE r \in {MaxAsset_collapse(simplified_assets) :
                simplified_assets \in
                    {[i \in 1..Len(a.assets) |-> simplify_class(a.assets[i], ts, w)]}} : TRUE
      [] a.tag = "MinAsset" ->
            CHOOSE r \in {MinAsset_collapse(simplified_assets) :
                simplified_assets \in
                    {[i \in 1..Len(a.assets) |-> simplify_class(a.assets[i], ts, w)]}} : TRUE
      [] a.tag = "LinearCombinationAsset" ->
            CHOOSE r \in {LinearCombinationAsset_collapse(simplified_terms) :
                simplified_terms \in
                    {[i \in 1..Len(a.terms) |->
                        <<a.terms[i][1], simplify_class(a.terms[i][2], ts, w)>>]}} : TRUE

\* simplify without the assert, the snapshot read with dict.get: a target
\* the snapshot has no key for counts as unresolved
simplify_get(a, ts, w) ==
    simplify_class(a, [t \in DOMAIN ts \cup referenced_target_ids(a) |->
                          IF t \in DOMAIN ts THEN ts[t] ELSE None], w)

\* assert self.referenced_target_ids().issubset(target_success.keys()), then
\* the class's simplify
simplify(a, ts, w) ==
    IF ~(referenced_target_ids(a) \subseteq DOMAIN ts)
    THEN AssertionError
    ELSE simplify_class(a, ts, w)

\* the receiver after a simplify that stored its simplified children in the
\* receiver's own list (self.assets[:] = simplified_assets)
simplify_receiver_inplace(a, ts, w) ==
    IF ~(referenced_target_ids(a) \subseteq DOMAIN ts) THEN a
    ELSE CASE a.tag \in ListTags ->
                [a EXCEPT !.assets =
                    [i \in 1..Len(a.assets) |-> simplify_class(a.assets[i], ts, w)]]
           [] a.tag = "LinearCombinationAsset" ->
                [a EXCEPT !.terms =
                    [i \in 1..Len(a.terms) |->
                        <<a.terms[i][1], simplify_class(a.terms[i][2], ts, w)>>]]
           [] OTHER -> a

\* the receiver and the nodes below it after self.simplify(target_success,
\* watermark_time) has run: no simplify assigns to a field of self, the
\* simplified children go into a new list (simplified_assets,
\* simplified_terms), and each child is the receiver of its own simplify call
RECURSIVE simplify_receiver(_, _, _)
simplify_receiver(a, ts, w) ==
    IF ~(referenced_target_ids(a) \subseteq DOMAIN ts) THEN a
    ELSE CASE a.tag \in ListTags ->
                [a EXCEPT !.assets =
                    [i \in 1..Len(a.assets) |-> simplify_receiver(a.assets[i], ts, w)]]
           [] a.tag = "LinearCombinationAsset" ->
                [a EXCEPT !.terms =
                    [i \in 1..Len(a.terms) |->
                        <<a.terms[i][1], simplify_receiver(a.terms[i][2], ts, w)>>]]
           [] OTHER -> a

----------------------------------------------------------------------------
(* lower_bound / upper_bound                                               *)

\* TimeRemainingAsset.upper_bound without the max(..., 0)
TimeRemainingAsset_upper_bound_unclamped(a, w) == FSub(a.stop_time, w)

\* TimeRemainingAsset.upper_bound with the time elapsed since stop_time in
\* place of the time remaining
TimeRemainingAsset_upper_bound_elapsed(a, w) == FMax2(FSub(w, a.stop_time), F(0))

TimeRemainingAsset_upper_bound(a, w) == FMax2(FSub(a.stop_time, w), F(0))

\* PriceyTimeRemainingAsset.upper_bound without the max(..., 0)
PriceyTimeRemainingAsset_upper_bound_unclamped(a, w) ==
    FMul(a.max_loss,
         FSub(FDiv(FSub(a.stop_time, w), FSub(a.stop_time, a.break_even_time)), F(1)))

\* PriceyTimeRemainingAsset.upper_bound dividing by stop_time,
\* break_even_time left out
PriceyTimeRemainingAsset_upper_bound_nobreakeven(a, w) ==
    LET time_remaining == FMax2(FSub(a.stop_time, w), F(0))
    IN  FMul(a.max_loss, FSub(FDiv(time_remaining, a.stop_time), F(1)))

PriceyTimeRemainingAsset_upper_bound(a, w) ==
    LET time_remaining == FMax2(FSub(a.stop_time, w), F(0))
    IN  FMul(a.max_loss,
             FSub(FDiv(time_remaining, FSub(a.stop_time, a.break_even_time)), F(1)))

RECURSIVE lower_bound(_, _), upper_bound(_, _)
lower_bound(a, w) ==
    CASE a.tag = "ConstantAsset" -> a.constant
      [] a.tag \in {"SatisfiedByAsset", "AgentsSatisfyByAsset", "TimeRemainingAsset"} -> F(0)
      [] a.tag = "PriceySatisfiedByAsset" -> FNeg(a.price)
      [] a.tag = "PriceyTimeRemainingAsset" -> FNeg(a.max_loss)
      [] a.tag = "MaxAsset" ->
            FMax([i \in 1..Len(a.assets) |-> lower_bound(a.assets[i], w)])
      [] a.tag = "MinAsset" ->
            FMin([i \in 1..Len(a.assets) |-> lower_bound(a.assets[i], w)])
      [] a.tag = "LinearCombinationAsset" ->
            FSum([i \in 1..Len(a.terms) |->
                FMul(a.terms[i][1],
                     IF FLe(F(0), a.terms[i][1])
                     THEN lower_bound(a.terms[i][2], w)
                     ELSE upper_bound(a.terms[i][2], w))])

upper_bound(a, w) ==
    CASE a.tag = "ConstantAsset" -> a.constant
      [] a.tag \in {"SatisfiedByAsset", "AgentsSatisfyByAsset"} -> F(1)
      [] a.tag = "TimeRemainingAsset" -> TimeRemainingAsset_upper_bound(a, w)
      [] a.tag = "PriceySatisfiedByAsset" -> FSub(F(1), a.price)
      [] a.tag = "PriceyTimeRemainingAsset" -> PriceyTimeRemainingAsset_upper_bound(a, w)
      [] a.tag = "MaxAsset" ->
            FMax([i \in 1..Len(a.assets) |-> upper_bound(a.assets[i], w)])
      [] a.tag = "MinAsset" ->
            FMin([i \in 1..Len(a.assets) |-> upper_bound(a.assets[i], w)])
      [] a.tag = "LinearCombinationAsset" ->
            FSum([i \in 1..Len(a.terms) |->
                FMul(a.terms[i][1],
                     IF FLe(F(0), a.terms[i][1])
                     THEN upper_bound(a.terms[i][2], w)
                     ELSE lower_bound(a.terms[i][2], w))])

----------------------------------------------------------------------------
(* Text.  A Python str is the sequence of its characters; the values the   *)
(* json module reads and writes are tagged with their JSON type.           *)

JStr(chars) == [json |-> "str", chars |-> chars]

JList(items) == [json |-> "list", items |-> items]

\* the exceptions the codec raises
ValueError == [tag |-> "ValueError"]

IndexError == [tag |-> "IndexError"]

ZeroDivisionError == [tag |-> "ZeroDivisionError"]

\* the class name followed by "(", as asset_to_str writes it and
\* str_to_asset tests it with startswith
Prefix(tag) ==
    CASE tag = "ConstantAsset" ->
            <<"C", "o", "n", "s", "t", "a", "n", "t", "A", "s", "s", "e", "t", "(">>
       [] tag = "SatisfiedByAsset" ->
            <<"S", "a", "t", "i", "s", "f", "i", "e", "d", "B", "y", "A", "s", "s", "e", "t", "(">>
       [] tag = "AgentsSatisfyByAsset" ->
            <<"A", "g", "e", "n", "t", "s", "S", "a", "t", "i", "s", "f", "y", "B", "y", "A", "s", "s", "e", "t", "(">>
       [] tag = "TimeRemainingAsset" ->
            <<"T", "i", "m", "e", "R", "e", "m", "a", "i", "n", "i", "n", "g", "A", "s", "s", "e", "t", "(">>
       [] tag = "MaxAsset" ->
            <<"M", "a", "x", "A", "s", "s", "e", "t", "(">>
       [] tag = "MinAsset" ->
            <<"M", "i", "n", "A", "s", "s", "e", "t", "(">>
       [] tag = "LinearCombinationAsset" ->
            <<"L", "i", "n", "e", "a", "r", "C", "o", "m", "b", "i", "n", "a", "t", "i", "o", "n", "A", "s", "s", "e", "t", "(">>
       [] tag = "PriceySatisfiedByAsset" ->
            <<"P", "r", "i", "c", "e", "y", "S", "a", "t", "i", "s", "f", "i", "e", "d", "B", "y", "A", "s", "s", "e", "t", "(">>
       [] tag = "PriceyTimeRemainingAsset" ->
            <<"P", "r", "i", "c", "e", "y", "T", "i", "m", "e", "R", "e", "m", "a", "i", "n", "i", "n", "g", "A", "s", "s", "e", "t", "(">>

\* sep.join(parts)
RECURSIVE Join(_, _)
Join(parts, sep) ==
    IF parts = <<>> THEN <<>>
    ELSE IF Len(parts) = 1 THEN parts[1]
    ELSE parts[1] \o sep \o Join(Tail(parts), sep)

Digits == <<"0", "1", "2", "3", "4", "5", "6", "7", "8", "9">>

\* str(n) of an int
RECURSIVE NatToStr(_)
NatToStr(n) ==
    IF n < 10 THEN <<Digits[n + 1]>>
    ELSE NatToStr(n \div 10) \o <<Digits[(n % 10) + 1]>>

IntToStr(n) == IF n < 0 THEN <<"-">> \o NatToStr(-n) ELSE NatToStr(n)

JInt(n) == [json |-> "int", value |-> n]

\* null, true, false: Python's None, True, False
JLiteral(name) == [json |-> "literal", name |-> name]

JLiterals == {<<"n", "u", "l", "l">>, <<"t", "r", "u", "e">>, <<"f", "a", "l", "s", "e">>}

\* the characters of the model's alphabet that a JSON string holds only
\* as a two-character escape, and the letter of the escape
JsonEscapes == {<<"\"", "\"">>, <<"\\", "\\">>, <<"\n", "n">>, <<"\r", "r">>,
                <<"\t", "t">>, <<"\f", "f">>}

\* json.dumps of a str of ASCII characters
RECURSIVE json_escape(_)
json_escape(chars) ==
    IF chars = <<>> THEN <<>>
    ELSE (IF \E e \in JsonEscapes : e[1] = chars[1]
          THEN <<"\\", (CHOOSE e \in JsonEscapes : e[1] = chars[1])[2]>>
          ELSE <<chars[1]>>)
             \o json_escape(Tail(chars))

\* json.dumps: the items of a list are separated by a comma and a space
RECURSIVE json_dumps(_)
json_dumps(v) ==
    CASE v.json = "str" -> <<"\"">> \o json_escape(v.chars) \o <<"\"">>
      [] v.json = "list" ->
            <<"[">> \o Join([i \in 1..Len(v.items) |-> json_dumps(v.items[i])], <<",", " ">>)
                \o <<"]">>
      [] v.json = "int" -> IntToStr(v.value)
      [] v.json = "literal" -> v.name

----------------------------------------------------------------------------
(* asset_to_str                                                            *)

fraction_to_str(f) ==
    IF f[2] = 1 THEN IntToStr(f[1]) ELSE IntToStr(f[1]) \o <<"/">> \o IntToStr(f[2])

RECURSIVE asset_to_str(_)
asset_to_str(a) ==
    CASE a.tag = "ConstantAsset" ->
            Prefix(a.tag) \o fraction_to_str(a.constant) \o <<")">>
      [] a.tag \in {"SatisfiedByAsset", "TimeRemainingAsset"} ->
            Prefix(a.tag) \o json_dumps(a.target) \o <<",">>
                \o fraction_to_str(a.stop_time) \o <<")">>
      [] a.tag = "AgentsSatisfyByAsset" ->
            Prefix(a.tag) \o json_dumps(a.target) \o <<",">> \o json_dumps(a.agent_ids)
                \o <<",">> \o fraction_to_str(a.stop_time) \o <<")">>
      [] a.tag \in ListTags ->
            Prefix(a.tag) \o <<"[">>
                \o Join([i \in 1..Len(a.assets) |-> asset_to_str(a.assets[i])], <<",">>)
                \o <<"]", ")">>
      [] a.tag = "LinearCombinationAsset" ->
            Prefix(a.tag) \o <<"[">>
                \o Join([i \in 1..Len(a.terms) |->
                            <<"(">> \o fraction_to_str(a.terms[i][1]) \o <<",">>
                                \o asset_to_str(a.terms[i][2]) \o <<")">>], <<",">>)
                \o <<"]", ")">>
      [] a.tag = "PriceySatisfiedByAsset" ->
            Prefix(a.tag) \o json_dumps(a.target) \o <<",">>
                \o fraction_to_str(a.stop_time) \o <<",">>
                \o fraction_to_str(a.price) \o <<")">>
      [] a.tag = "PriceyTimeRemainingAsset" ->
            Prefix(a.tag) \o json_dumps(a.target) \o <<",">>
                \o fraction_to_str(a.break_even_time) \o <<",">>
                \o fraction_to_str(a.stop_time) \o <<",">>
                \o fraction_to_str(a.max_loss) \o <<")">>

----------------------------------------------------------------------------
(* str_to_asset.  A call that returns v is Ok(v); a call that raises is    *)
(* the exception's record.                                                 *)

Ok(v) == [tag |-> "ok", value |-> v]

Raised(r) == r.tag \in {"ValueError", "IndexError", "ZeroDivisionError", "AssertionError"}

\* the characters of the model's alphabet that str.strip() removes and
\* that the json scanner skips between tokens
Whitespace == {" ", "\t", "\n", "\r"}

RECURSIVE lstrip(_)
lstrip(s) == IF s # <<>> /\ s[1] \in Whitespace THEN lstrip(Tail(s)) ELSE s

RECURSIVE rstrip(_)
rstrip(s) ==
    IF s # <<>> /\ s[Len(s)] \in Whitespace THEN rstrip(SubSeq(s, 1, Len(s) - 1)) ELSE s

strip(s) == rstrip(lstrip(s))

startswith(s, prefix) == Len(s) >= Len(prefix) /\ SubSeq(s, 1, Len(prefix)) = prefix

endswith(s, suffix) ==
    Len(s) >= Len(suffix) /\ SubSeq(s, Len(s) - Len(suffix) + 1, Len(s)) = suffix

\* s.split(sep) for a one-character sep
RECURSIVE split(_, _, _, _)
split(s, sep, i, current) ==
    IF i > Len(s) THEN <<current>>
    ELSE IF s[i] = sep THEN <<current>> \o split(s, sep, i + 1, <<>>)
    ELSE split(s, sep, i + 1, Append(current, s[i]))

IsDigit(c) == \E d \in 1..10 : Digits[d] = c

DigitValue(c) == (CHOOSE d \in 1..10 : Digits[d] = c) - 1

\* the value of a run of digits in which single underscores may separate
\* digits
RECURSIVE DigitsValue(_, _)
DigitsValue(s, acc) ==
    IF s = <<>> THEN acc
    ELSE IF s[1] = "_" THEN DigitsValue(Tail(s), acc)
    ELSE DigitsValue(Tail(s), 10 * acc + DigitValue(s[1]))

\* int(s): surrounding whitespace, an optional sign, then digits
int(s) ==
    LET t == strip(s)
        signed == t # <<>> /\ t[1] \in {"+", "-"}
        body == IF signed THEN Tail(t) ELSE t
        wellFormed ==
            /\ body # <<>>
            /\ \A i \in 1..Len(body) : IsDigit(body[i]) \/ body[i] = "_"
            /\ IsDigit(body[1]) /\ IsDigit(body[Len(body)])
            /\ \A i \in 1..(Len(body) - 1) : ~(body[i] = "_" /\ body[i + 1] = "_")
    IN  IF ~wellFormed THEN ValueError
        ELSE IF signed /\ t[1] = "-" THEN Ok(-DigitsValue(body, 0))
        ELSE Ok(DigitsValue(body, 0))

parse_fraction(s) ==
    IF \E i \in 1..Len(s) : s[i] = "/"
    THEN LET parts == split(s, "/", 1, <<>>)
             numerator == int(parts[1])
             denominator == int(parts[2])
         IN  IF Raised(numerator) THEN numerator
             ELSE IF Raised(denominator) THEN denominator
             ELSE IF denominator.value = 0 THEN ZeroDivisionError
             ELSE Ok(Fraction(numerator.value, denominator.value))
    ELSE LET n == int(s)
         IN  IF Raised(n) THEN n ELSE Ok(F(n.value))

\* The two loops that run over a whole string are folded over an index
\* range split in halves, the state after the left half bound to a value
\* before the right half reads it: the iterations happen in the loop's
\* order, and the evaluation nests to the logarithm of the length.

\* one iteration of the loop of find_matching_paren at index i; returned is
\* the index the loop returned, 0 while it has not; quotation marks are not
\* looked at
find_matching_paren_step(st, s, i) ==
    IF st.returned # 0 THEN st
    ELSE IF s[i] = "(" THEN [st EXCEPT !.count = @ + 1]
    ELSE IF s[i] = ")"
         THEN IF st.count - 1 = 0 THEN [count |-> 0, returned |-> i]
              ELSE [st EXCEPT !.count = @ - 1]
    ELSE st

RECURSIVE find_matching_paren_range(_, _, _, _)
find_matching_paren_range(s, lo, hi, st) ==
    IF lo > hi THEN st
    ELSE IF lo = hi THEN find_matching_paren_step(st, s, lo)
    ELSE CHOOSE r \in {find_matching_paren_range(s, ((lo + hi) \div 2) + 1, hi, left) :
                          left \in {find_matching_paren_range(s, lo, (lo + hi) \div 2, st)}} :
             TRUE

\* raises ValueError("Unmatched parenthesis") when the loop ends without
\* returning
find_matching_paren(s, start) ==
    LET st == find_matching_paren_range(s, start, Len(s), [count |-> 0, returned |-> 0])
    IN  IF st.returned = 0 THEN ValueError ELSE Ok(st.returned)

\* one iteration of the loop of parse_arguments over the character char
parse_arguments_step(st, char) ==
    LET kept == [st EXCEPT !.current = Append(@, char)]
    IN  IF st.escape THEN [kept EXCEPT !.escape = FALSE]
        ELSE IF char = "\\" /\ st.in_string THEN [kept EXCEPT !.escape = TRUE]
        ELSE IF char = "\"" THEN [kept EXCEPT !.in_string = ~@]
        ELSE IF st.in_string THEN kept
        ELSE IF char = "(" THEN [kept EXCEPT !.depth = @ + 1]
        ELSE IF char = ")" THEN [kept EXCEPT !.depth = @ - 1]
        ELSE IF char = "[" THEN [kept EXCEPT !.bracket_depth = @ + 1]
        ELSE IF char = "]" THEN [kept EXCEPT !.bracket_depth = @ - 1]
        ELSE IF char = "," /\ st.depth = 0 /\ st.bracket_depth = 0
             THEN [st EXCEPT !.args = Append(@, st.current), !.current = <<>>]
        ELSE kept

RECURSIVE parse_arguments_range(_, _, _, _)
parse_arguments_range(args_str, lo, hi, st) ==
    IF lo > hi THEN st
    ELSE IF lo = hi THEN parse_arguments_step(st, args_str[lo])
    ELSE CHOOSE r \in {parse_arguments_range(args_str, ((lo + hi) \div 2) + 1, hi, left) :
                          left \in {parse_arguments_range(args_str, lo, (lo + hi) \div 2, st)}} :
             TRUE

parse_arguments(args_str) ==
    LET st == parse_arguments_range(args_str, 1, Len(args_str),
                  [args |-> <<>>, current |-> <<>>, depth |-> 0, bracket_depth |-> 0,
                   in_string |-> FALSE, escape |-> FALSE])
    IN  IF st.current # <<>> THEN Append(st.args, st.current) ELSE st.args

\* a value the json scanner has read, and the index after its last
\* character
Scanned(v, end) == [tag |-> "ok", value |-> v, end |-> end]

RECURSIVE skip_whitespace(_, _)
skip_whitespace(s, i) ==
    IF i <= Len(s) /\ s[i] \in Whitespace THEN skip_whitespace(s, i + 1) ELSE i

\* json's scanstring from the character after the opening quote: a raw
\* control character, an unknown escape and a missing closing quote are
\* JSONDecodeError, a subclass of ValueError
RECURSIVE scanstring(_, _, _)
scanstring(s, i, chars) ==
    IF i > Len(s) THEN ValueError
    ELSE IF s[i] = "\"" THEN Scanned(JStr(chars), i + 1)
    ELSE IF s[i] = "\\"
         THEN IF i + 1 > Len(s) THEN ValueError
              ELSE IF s[i + 1] = "/" THEN scanstring(s, i + 2, Append(chars, "/"))
              ELSE IF \E e \in JsonEscapes : e[2] = s[i + 1]
                   THEN scanstring(s, i + 2,
                            Append(chars, (CHOOSE e \in JsonEscapes : e[2] = s[i + 1])[1]))
              ELSE ValueError
    ELSE IF s[i] \in {"\n", "\r", "\t", "\f"} THEN ValueError
    ELSE scanstring(s, i + 1, Append(chars, s[i]))

RECURSIVE scan_digits(_, _)
scan_digits(s, i) == IF i <= Len(s) /\ IsDigit(s[i]) THEN scan_digits(s, i + 1) ELSE i

\* json's scanner for one value starting at s[i]: a string, a list, an
\* integer or a literal.  Floats, NaN / Infinity and objects are not among
\* the strings the model decodes.
RECURSIVE scan_once(_, _)
RECURSIVE scan_array(_, _, _)
scan_once(s, i) ==
    IF i > Len(s) THEN ValueError
    ELSE IF s[i] = "\"" THEN scanstring(s, i + 1, <<>>)
    ELSE IF s[i] = "["
         THEN LET j == skip_whitespace(s, i + 1)
              IN  IF j <= Len(s) /\ s[j] = "]" THEN Scanned(JList(<<>>), j + 1)
                  ELSE scan_array(s, j, <<>>)
    ELSE IF \E name \in JLiterals : startswith(SubSeq(s, i, Len(s)), name)
         THEN LET name == CHOOSE name \in JLiterals : startswith(SubSeq(s, i, Len(s)), name)
              IN  Scanned(JLiteral(name), i + Len(name))
    ELSE LET first == IF s[i] = "-" THEN i + 1 ELSE i
             end == IF first <= Len(s) /\ s[first] = "0" THEN first + 1
                    ELSE scan_digits(s, first)
         IN  IF end = first THEN ValueError
             ELSE Scanned(JInt(int(SubSeq(s, i, end - 1)).value), end)

\* the items of a list from s[i] on, after the items already read
scan_array(s, i, items) ==
    LET item == scan_once(s, i)
    IN  IF Raised(item) THEN item
        ELSE LET j == skip_whitespace(s, item.end)
                 values == Append(items, item.value)
             IN  IF j > Len(s) THEN ValueError
                 ELSE IF s[j] = "]" THEN Scanned(JList(values), j + 1)
                 ELSE IF s[j] # "," THEN ValueError
                 ELSE scan_array(s, skip_whitespace(s, j + 1), values)

\* json.loads: one value with nothing but whitespace around it
json_loads(s) ==
    LET scanned == scan_once(s, skip_whitespace(s, 1))
    IN  IF Raised(scanned) THEN scanned
        ELSE IF skip_whitespace(s, scanned.end) # Len(s) + 1 THEN ValueError
        ELSE Ok(scanned.value)

\* json.loads(args[i]) and parse_fraction(args[i]); args[i] raises
\* IndexError when the list is too short (i counts from 1 here)
loads_arg(args, i) == IF i > Len(args) THEN IndexError ELSE json_loads(args[i])

fraction_arg(args, i) == IF i > Len(args) THEN IndexError ELSE parse_fraction(args[i])

AnyRaised(results) == \E i \in 1..Len(results) : Raised(results[i])

\* statements run in order: the exception that propagates is the first
FirstRaised(results) ==
    results[CHOOSE i \in 1..Len(results) :
                Raised(results[i]) /\ \A j \in 1..(i - 1) : ~Raised(results[j])]

\* the class whose name and "(" the string starts with
PrefixTags(string) == {tag \in AssetTags : startswith(string, Prefix(tag))}

RECURSIVE str_to_asset(_)
\* the body of the MaxAsset and MinAsset branches, from string[9:end] on
str_to_list_asset(tag, inner) ==
    LET list_content == strip(inner)
    IN  IF ~(startswith(list_content, <<"[">>) /\ endswith(list_content, <<"]">>))
        THEN ValueError
        ELSE IF SubSeq(list_content, 2, Len(list_content) - 1) = <<>> THEN ValueError
        ELSE LET asset_strs == parse_arguments(SubSeq(list_content, 2, Len(list_content) - 1))
                 assets == [i \in 1..Len(asset_strs) |-> str_to_asset(asset_strs[i])]
             IN  IF AnyRaised(assets) THEN FirstRaised(assets)
                 ELSE IF tag = "MaxAsset" THEN MaxAsset(assets)
                 ELSE MinAsset(assets)

\* one iteration of the loop over term_strs: the pair appended to terms
str_to_term(raw) ==
    LET term_str == strip(raw)
    IN  IF ~(startswith(term_str, <<"(">>) /\ endswith(term_str, <<")">>)) THEN ValueError
        ELSE LET parts == parse_arguments(SubSeq(term_str, 2, Len(term_str) - 1))
                 coeff == fraction_arg(parts, 1)
                 gen == IF Len(parts) < 2 THEN IndexError ELSE str_to_asset(parts[2])
             IN  IF Raised(coeff) THEN coeff
                 ELSE IF Raised(gen) THEN gen
                 ELSE Ok(<<coeff.value, gen>>)

\* the body of the LinearCombinationAsset branch, from string[23:end] on
str_to_linear_combination(inner) ==
    LET list_content == strip(inner)
    IN  IF ~(startswith(list_content, <<"[">>) /\ endswith(list_content, <<"]">>))
        THEN ValueError
        ELSE LET term_strs == parse_arguments(SubSeq(list_content, 2, Len(list_content) - 1))
                 terms == [i \in 1..Len(term_strs) |-> str_to_term(term_strs[i])]
             IN  IF AnyRaised(terms) THEN FirstRaised(terms)
                 ELSE LinearCombinationAsset([i \in 1..Len(terms) |-> terms[i].value])

\* the bodies of the branches that read their arguments with
\* parse_arguments, from string[len(prefix):end] on
str_to_leaf_asset(tag, inner) ==
    LET args == parse_arguments(inner)
        target == loads_arg(args, 1)
    IN  CASE tag \in {"SatisfiedByAsset", "TimeRemainingAsset"} ->
                LET stop_time == fraction_arg(args, 2)
                    results == <<target, stop_time>>
                IN  IF AnyRaised(results) THEN FirstRaised(results)
                    ELSE IF tag = "SatisfiedByAsset"
                         THEN SatisfiedByAsset(target.value, stop_time.value)
                    ELSE TimeRemainingAsset(target.value, stop_time.value)
          [] tag = "AgentsSatisfyByAsset" ->
                LET agent_ids == loads_arg(args, 2)
                    stop_time == fraction_arg(args, 3)
                    results == <<target, agent_ids, stop_time>>
                IN  IF AnyRaised(results) THEN FirstRaised(results)
                    ELSE AgentsSatisfyByAsset(target.value, agent_ids.value, stop_time.value)
          [] tag = "PriceySatisfiedByAsset" ->
                LET stop_time == fraction_arg(args, 2)
                    price == fraction_arg(args, 3)
                    results == <<target, stop_time, price>>
                IN  IF AnyRaised(results) THEN FirstRaised(results)
                    ELSE PriceySatisfiedByAsset(target.value, stop_time.value, price.value)
          [] tag = "PriceyTimeRemainingAsset" ->
                LET break_even_time == fraction_arg(args, 2)
                    stop_time == fraction_arg(args, 3)
                    max_loss == fraction_arg(args, 4)
                    results == <<target, break_even_time, stop_time, max_loss>>
                IN  IF AnyRaised(results) THEN FirstRaised(results)
                    ELSE PriceyTimeRemainingAsset(target.value, break_even_time.value,
                                                  stop_time.value, max_loss.value)

str_to_asset(raw) ==
    LET string == strip(raw)
    IN  IF PrefixTags(string) = {} THEN ValueError
        ELSE LET tag == CHOOSE t \in PrefixTags(string) : TRUE
                 \* string.index("(") is the last character of the prefix
                 end == find_matching_paren(string, Len(Prefix(tag)))
             IN  IF Raised(end) THEN end
                 ELSE LET inner == SubSeq(string, Len(Prefix(tag)) + 1, end.value - 1)
                      IN  CASE tag = "ConstantAsset" ->
                                    LET constant == parse_fraction(inner)
                                    IN  IF Raised(constant) THEN constant
                                        ELSE ConstantAsset(constant.value)
                            [] tag \in LeafTags -> str_to_leaf_asset(tag, inner)
                            [] tag \in ListTags -> str_to_list_asset(tag, inner)
                            [] tag = "LinearCombinationAsset" ->
                                    str_to_linear_combination(inner)

----------------------------------------------------------------------------
(* The inputs: target ids, resolution facts, snapshots, watermarks         *)

\* proven times range over 0..MaxTime, watermarks over 0..MaxTime + 1
MaxTime == 2

Targets == {"t1", "t2"}

ProvenTimes == {F(n) : n \in 0..MaxTime}

Watermarks == {F(n) : n \in 0..(MaxTime + 1)}

\* unresolved; proven by alice at any time; proven at time 0 with no author;
\* proven at time 1 by carol, whom no asset lists
Facts ==
    {None} \cup {Proven(t, "alice") : t \in ProvenTimes}
           \cup {Proven(F(0), NoAuthor), Proven(F(1), "carol")}

\* TargetSuccess: a dict from target ids to facts, holding every target or
\* lacking the key t2
Snapshots == [Targets -> Facts] \cup [{"t1"} -> Facts]

----------------------------------------------------------------------------
(* The assets the model constructs: every class, two levels of nesting     *)

Leaves ==
    {ConstantAsset(F(-1)), ConstantAsset(<<1, 2>>), ConstantAsset(F(2)),
     SatisfiedByAsset("t1", F(1)), SatisfiedByAsset("t2", F(2)),
     AgentsSatisfyByAsset("t1", <<"alice">>, F(2)),
     AgentsSatisfyByAsset("t2", <<"bob", "alice">>, F(1)),
     AgentsSatisfyByAsset("t2", <<>>, F(2)),
     TimeRemainingAsset("t1", F(2)), TimeRemainingAsset("t2", <<3, 2>>),
     PriceySatisfiedByAsset("t1", F(1), <<1, 2>>),
     PriceySatisfiedByAsset("t2", F(2), F(-1)),
     PriceyTimeRemainingAsset("t1", F(1), F(2), F(4)),
     PriceyTimeRemainingAsset("t2", F(-1), F(1), <<1, 2>>),
     PriceyTimeRemainingAsset("t1", <<1, 2>>, F(2), F(1))}

Coefficients == {F(-1), F(0), F(2)}

\* the composites over the children kids: lists of one or two children,
\* linear combinations of none, one or two terms
Lists(kids) == {<<k>> : k \in kids} \cup {<<k, l>> : k \in kids, l \in kids}

Terms(kids) ==
    {<<>>} \cup {<<<<c, k>>>> : c \in Coefficients, k \in kids}
           \cup UNION {{<<<<c, k>>, <<FNeg(c), l>>>> : c \in Coefficients, l \in kids \ {k}} :
                        k \in kids}

Composites(kids) ==
    {MaxAsset(l) : l \in Lists(kids)} \cup {MinAsset(l) : l \in Lists(kids)}
        \cup {LinearCombinationAsset(t) : t \in Terms(kids)}

Kids ==
    {ConstantAsset(<<1, 2>>), SatisfiedByAsset("t1", F(1)),
     TimeRemainingAsset("t2", <<3, 2>>),
     PriceyTimeRemainingAsset("t1", <<1, 2>>, F(2), F(1))}

Nested ==
    {LinearCombinationAsset(<<>>),
     LinearCombinationAsset(<<<<F(-1), TimeRemainingAsset("t2", <<3, 2>>)>>,
                              <<F(2), AgentsSatisfyByAsset("t1", <<"alice">>, F(2))>>>>),
     MaxAsset(<<ConstantAsset(F(0)), PriceyTimeRemainingAsset("t1", F(1), F(2), F(4))>>),
     MinAsset(<<PriceySatisfiedByAsset("t2", F(2), F(-1)), ConstantAsset(F(1))>>)}

\* composites of constants alone
ConstantComposites ==
    {MaxAsset(<<ConstantAsset(F(2)), ConstantAsset(F(5))>>),
     MinAsset(<<ConstantAsset(F(2)), ConstantAsset(F(5))>>),
     LinearCombinationAsset(<<<<F(2), ConstantAsset(F(3))>>,
                              <<F(-1), ConstantAsset(F(1))>>>>)}

Assets == Leaves \cup Composites(Kids) \cup Composites(Nested) \cup ConstantComposites

----------------------------------------------------------------------------
(* The run: a caller holds an asset, is handed snapshots that gain         *)
(* resolutions and watermarks that advance, and replaces the asset by its  *)
(* simplification                                                          *)

NoCall == [op |-> "none"]

Init ==
    /\ asset \in Assets
    /\ target_success \in Snapshots
    /\ watermark_time \in Watermarks
    /\ last = NoCall
    /\ client = NoClient

\* asset = asset.simplify(target_success, watermark_time); a failed assert
\* leaves the caller with the asset it had.  last keeps the receiver as it
\* was before the call (self) and as it is after it (after)
Simplify ==
    \E ret \in {simplify(asset, target_success, watermark_time)},
       after \in {simplify_receiver(asset, target_success, watermark_time)} :
        /\ asset' = IF IsAsset(ret) THEN ret ELSE asset
        /\ last' = [op |-> "simplify", self |-> asset, ret |-> ret, after |-> after]
        /\ UNCHANGED <<target_success, watermark_time, client>>

\* the snapshot gains the resolution of an unresolved target
Resolve ==
    \E t \in DOMAIN target_success, f \in Facts \ {None} :
        /\ ~target_success[t].resolved
        /\ target_success' = [target_success EXCEPT ![t] = f]
        /\ last' = NoCall
        /\ UNCHANGED <<asset, watermark_time, client>>

\* the watermark advances
Advance ==
    \E w \in Watermarks :
        /\ FLt(watermark_time, w)
        /\ watermark_time' = w
        /\ last' = NoCall
        /\ UNCHANGED <<asset, target_success, client>>

Next == Simplify \/ Resolve \/ Advance

Spec == Init /\ [][Next]_vars

\* the run of repeated simplification: from an asset just constructed, with
\* nothing resolved and the watermark at 0, the caller keeps simplifying
InitRun ==
    /\ asset \in Assets
    /\ target_success = [t \in Targets |-> None]
    /\ watermark_time = F(0)
    /\ last = NoCall
    /\ client = NoClient

SpecRun == InitRun /\ [][Next]_vars /\ WF_vars(Simplify)

----------------------------------------------------------------------------
(* Vocabulary of the properties                                            *)

\* the last step was a simplify call that returned an asset
Returned == last.op = "simplify" /\ IsAsset(last.ret)

\* the stop_time of every leaf of the tree
RECURSIVE StopTimes(_)
StopTimes(a) ==
    CASE a.tag = "ConstantAsset" -> {}
      [] a.tag \in LeafTags -> {a.stop_time}
      [] a.tag \in ListTags -> UNION {StopTimes(a.assets[i]) : i \in 1..Len(a.assets)}
      [] a.tag = "LinearCombinationAsset" ->
            UNION {StopTimes(a.terms[i][2]) : i \in 1..Len(a.terms)}

Covers(ts, a) == referenced_target_ids(a) \subseteq DOMAIN ts

AllResolved(ts, a) == \A t \in referenced_target_ids(a) : ts[t].resolved

PastEveryStop(w, a) == \A s \in StopTimes(a) : FLt(s, w)

IsComposite(a) == a.tag \in ListTags \cup {"LinearCombinationAsset"}

\* the children of a composite, as a set
Children(a) ==
    IF a.tag \in ListTags
    THEN {a.assets[i] : i \in 1..Len(a.assets)}
    ELSE IF a.tag = "LinearCombinationAsset"
         THEN {a.terms[i][2] : i \in 1..Len(a.terms)}
         ELSE {}

\* every resolution the snapshot holds for a target of a is at or after w
NoneProvenBefore(ts, a, w) ==
    \A t \in referenced_target_ids(a) :
        ts[t].resolved => FLe(w, ts[t].proven_time)

----------------------------------------------------------------------------
(* C1: monotonic shrinkage.  A simplify call under a snapshot whose keys   *)
(* cover the receiver's targets returns an asset whose referenced targets  *)
(* are a subset of the receiver's.                                         *)
C1_MonotonicShrinkage ==
    (last.op = "simplify" /\ Covers(target_success, last.self)) =>
        /\ IsAsset(last.ret)
        /\ referenced_target_ids(last.ret) \subseteq referenced_target_ids(last.self)

\* a nested receiver lost one of its two targets and kept the other
C1_Witness ==
    /\ Returned
    /\ \E c \in Children(last.self) : IsComposite(c)
    /\ Cardinality(referenced_target_ids(last.self)) = 2
    /\ Cardinality(referenced_target_ids(last.ret)) = 1

(* C2: resolved targets are eliminated.  No target with a resolution fact  *)
(* in the snapshot is referenced by the asset simplify returns, whatever   *)
(* the watermark and the nesting.                                          *)
C2_ResolvedEliminated ==
    Returned =>
        \A t \in DOMAIN target_success :
            target_success[t].resolved => t \notin referenced_target_ids(last.ret)

\* a resolved target sat under a nested composite that did not collapse
C2_Witness ==
    /\ Returned
    /\ ~IsConstant(last.ret)
    /\ \E c \in Children(last.self) :
          /\ IsComposite(c)
          /\ \E t \in referenced_target_ids(c) : target_success[t].resolved

(* C3: one-call termination.  When the snapshot resolves every referenced  *)
(* target, or the watermark is past every stop_time of the tree, the       *)
(* single simplify call returns a ConstantAsset.                           *)
C3_OneCallTermination ==
    (Returned /\ (\/ AllResolved(target_success, last.self)
                  \/ PastEveryStop(watermark_time, last.self))) =>
        IsConstant(last.ret)

\* a Max/Min over an empty linear combination and an unresolved leaf
\* collapsed because the watermark passed the leaf's stop_time
C3_Witness ==
    /\ Returned
    /\ last.self.tag \in ListTags
    /\ LinearCombinationAsset(<<>>) \in Children(last.self)
    /\ ~AllResolved(target_success, last.self)
    /\ PastEveryStop(watermark_time, last.self)
    /\ IsConstant(last.ret)

(* C4: an asset returned by simplify that references no targets is a       *)
(* ConstantAsset.                                                          *)
C4_NoTargetsIsConstant ==
    (Returned /\ referenced_target_ids(last.ret) = {}) => IsConstant(last.ret)

\* a nested composite over two targets came back without targets
C4_Witness ==
    /\ Returned
    /\ \E c \in Children(last.self) : IsComposite(c)
    /\ Cardinality(referenced_target_ids(last.self)) = 2
    /\ referenced_target_ids(last.ret) = {}

(* C6: bound soundness.  Take a simplify call that returned a constant,    *)
(* so its snapshot and watermark decide every target of the receiver c.    *)
(* For every watermark w that this snapshot is a future of (w is not after *)
(* the call's watermark, and no target of c is proven before w), the       *)
(* constant lies in [c.lower_bound(w), c.upper_bound(w)].                  *)
C6_BoundSoundness ==
    (Returned /\ IsConstant(last.ret)) =>
        \A w \in Watermarks :
            (FLe(w, watermark_time) /\ NoneProvenBefore(target_success, last.self, w)) =>
                /\ FLe(lower_bound(last.self, w), last.ret.constant)
                /\ FLe(last.ret.constant, upper_bound(last.self, w))

\* a linear combination with a negative coefficient collapsed to a constant
\* strictly inside its bounds at a watermark after 0, one of its targets
\* proven at or after that watermark
C6_Witness ==
    /\ Returned
    /\ IsConstant(last.ret)
    /\ last.self.tag = "LinearCombinationAsset"
    /\ \E i \in 1..Len(last.self.terms) : FLt(last.self.terms[i][1], F(0))
    /\ \E t \in referenced_target_ids(last.self) : target_success[t].resolved
    /\ \E w \in Watermarks :
          /\ FLt(F(0), w)
          /\ FLe(w, watermark_time)
          /\ NoneProvenBefore(target_success, last.self, w)
          /\ FLt(lower_bound(last.self, w), last.ret.constant)
          /\ FLt(last.ret.constant, upper_bound(last.self, w))

(* C7 as stated: for every covering snapshot and every watermark w, the    *)
(* bounds at w of the asset simplify returns are within the bounds at w of *)
(* the receiver.                                                           *)
C7_TightenedBySimplify ==
    Returned =>
        /\ FLe(lower_bound(last.self, watermark_time),
               lower_bound(last.ret, watermark_time))
        /\ FLe(upper_bound(last.ret, watermark_time),
               upper_bound(last.self, watermark_time))

(* C7 amended: the same, for every covering snapshot in which no target of *)
(* the receiver is proven before the watermark w.                          *)
C7_TightenedWhenNoneProvenBefore ==
    (Returned /\ NoneProvenBefore(target_success, last.self, watermark_time)) =>
        /\ FLe(lower_bound(last.self, watermark_time),
               lower_bound(last.ret, watermark_time))
        /\ FLe(upper_bound(last.ret, watermark_time),
               upper_bound(last.self, watermark_time))

\* a composite with a target proven at or after the watermark was replaced
\* by an asset whose interval is strictly narrower on both sides
C7_Witness ==
    /\ Returned
    /\ IsComposite(last.self)
    /\ NoneProvenBefore(target_success, last.self, watermark_time)
    /\ \E t \in referenced_target_ids(last.self) : target_success[t].resolved
    /\ FLt(lower_bound(last.self, watermark_time),
           lower_bound(last.ret, watermark_time))
    /\ FLt(upper_bound(last.ret, watermark_time),
           upper_bound(last.self, watermark_time))

(* C8: for every asset, constructed or returned by simplify, and every     *)
(* watermark w, lower_bound(w) <= upper_bound(w).                          *)
C8_LowerAtMostUpper ==
    \A w \in Watermarks : FLe(lower_bound(asset, w), upper_bound(asset, w))

\* a Max/Min over a linear combination with a negative coefficient on a
\* time-dependent leaf, at a watermark past that leaf's stop_time
C8_Witness ==
    /\ asset.tag \in ListTags
    /\ FLt(lower_bound(asset, watermark_time), upper_bound(asset, watermark_time))
    /\ \E c \in Children(asset) :
          /\ c.tag = "LinearCombinationAsset"
          /\ \E i \in 1..Len(c.terms) :
                /\ FLt(c.terms[i][1], F(0))
                /\ c.terms[i][2].tag \in {"TimeRemainingAsset", "PriceyTimeRemainingAsset"}
                /\ FLt(c.terms[i][2].stop_time, watermark_time)

(* C12: precondition failure.  A simplify call under a snapshot whose keys *)
(* lack a target the receiver references raises and returns no asset, the  *)
(* caller keeping the asset it had; also when the missing target sits in a *)
(* nested child and other children could be simplified.                    *)
C12_PreconditionFailure ==
    (last.op = "simplify" /\ ~Covers(target_success, last.self)) =>
        /\ ~IsAsset(last.ret)
        /\ last.ret = AssertionError
        /\ asset = last.self

\* the missing target sat in a nested composite, next to a child whose
\* target the snapshot resolves
C12_Witness ==
    /\ last.op = "simplify"
    /\ ~IsAsset(last.ret)
    /\ \E c \in Children(last.self) :
          /\ IsComposite(c)
          /\ ~Covers(target_success, c)
    /\ \E c \in Children(last.self) :
          /\ referenced_target_ids(c) # {}
          /\ Covers(target_success, c)
          /\ AllResolved(target_success, c)

\* the snapshot resolves every target of a, or the watermark is past every
\* stop_time of a
Decided(ts, w, a) == AllResolved(ts, a) \/ PastEveryStop(w, a)

(* C5: convergence of repeated simplification.  In a run that keeps        *)
(* simplifying while the snapshot only gains resolutions and the watermark *)
(* only advances, once every target of the asset is resolved or the        *)
(* watermark is past every stop_time the asset becomes a ConstantAsset,    *)
(* and from then on every simplify returns that same constant.             *)
C5_Convergence ==
    /\ [](Decided(target_success, watermark_time, asset) => <>IsConstant(asset))
    /\ [][IsConstant(asset) =>
            /\ asset' = asset
            /\ (last'.op = "simplify" => last'.ret = asset)]_vars

\* the run reached a constant in a second or later call: the receiver of the
\* call was a partly simplified asset, decided by the watermark alone
C5_Witness ==
    /\ Returned
    /\ IsConstant(last.ret)
    /\ last.self \notin Assets
    /\ IsComposite(last.self)
    /\ ~AllResolved(target_success, last.self)

----------------------------------------------------------------------------
(* The codec as a state machine: asset_to_str is called on the asset, and  *)
(* str_to_asset on the string that call returned.                          *)

\* target and agent ids: plain ones, and ones holding the characters the
\* grammar of the encoding uses
CodecIds == {<<"t">>, <<>>, <<" ">>, <<"x", ",", "y">>, <<"[", "]">>, <<"q", "\"">>,
             <<"\\">>, <<"(", ")">>, <<"a", ")">>, <<"(", "b">>}

CodecFractions == {F(0), F(-1), F(10), Fraction(1, 2), Fraction(-3, 2)}

CodecAgentLists == {<<>>, <<JStr(<<"t">>)>>,
                    <<JStr(<<"x", ",", "y">>), JStr(<<"[", "]">>)>>,
                    <<JStr(<<"a", ")">>)>>}

CodecLeaves ==
    {ConstantAsset(c) : c \in CodecFractions}
        \cup {SatisfiedByAsset(JStr(t), F(1)) : t \in CodecIds}
        \cup {TimeRemainingAsset(JStr(t), Fraction(1, 2)) : t \in CodecIds}
        \cup {AgentsSatisfyByAsset(JStr(<<"t">>), JList(l), F(10)) : l \in CodecAgentLists}
        \cup {PriceySatisfiedByAsset(JStr(t), F(10), Fraction(-3, 2)) :
                 t \in {<<"t">>, <<"(", "b">>}}
        \cup {PriceyTimeRemainingAsset(JStr(t), F(-1), Fraction(1, 2), F(10)) :
                 t \in {<<"t">>, <<"a", ")">>}}

CodecKids ==
    {ConstantAsset(Fraction(-3, 2)),
     SatisfiedByAsset(JStr(<<"t">>), F(1)),
     SatisfiedByAsset(JStr(<<"a", ")">>), F(1)),
     SatisfiedByAsset(JStr(<<"(", "b">>), F(1)),
     AgentsSatisfyByAsset(JStr(<<"q", "\"">>),
                          JList(<<JStr(<<"x", ",", "y">>), JStr(<<"[", "]">>)>>), F(0)),
     LinearCombinationAsset(<<>>),
     LinearCombinationAsset(<<<<Fraction(1, 2), MaxAsset(<<ConstantAsset(F(0))>>)>>>>)}

CodecComposites ==
    {MaxAsset(<<k>>) : k \in CodecKids}
        \cup {MinAsset(<<k, l>>) : k, l \in CodecKids}
        \cup {LinearCombinationAsset(<<<<F(-1), k>>, <<Fraction(1, 2), l>>>>) :
                 k, l \in CodecKids}

CodecAssets == CodecLeaves \cup CodecKids \cup CodecComposites

InitCodec ==
    /\ asset \in CodecAssets
    /\ target_success = [t \in {} |-> None]
    /\ watermark_time = F(0)
    /\ last = NoCall
    /\ client = NoClient

\* asset_to_str(asset)
Encode ==
    /\ last' = [op |-> "asset_to_str", asset |-> asset, str |-> asset_to_str(asset)]
    /\ UNCHANGED <<asset, target_success, watermark_time, client>>

\* str_to_asset(string) for the string the last asset_to_str returned; the
\* asset it returns is the one the caller holds from then on
Decode ==
    /\ last.op = "asset_to_str"
    /\ \E ret \in {str_to_asset(last.str)} :
           /\ last' = [op |-> "str_to_asset", string |-> last.str,
                       encoded |-> last.asset, ret |-> ret]
           /\ asset' = IF IsAsset(ret) THEN ret ELSE asset
    /\ UNCHANGED <<target_success, watermark_time, client>>

NextCodec == Encode \/ Decode

SpecCodec == InitCodec /\ [][NextCodec]_vars

\* C9: Round trip 1: for every asset built with the constructors,
\* whatever its target and agent-id strings, its rationals and its nesting,
\* str_to_asset(asset_to_str(asset)) returns an asset and that asset is
\* structurally equal to the one encoded: same class, same field values,
\* same order of children and terms.
C9_RoundTrip1 ==
    last.op = "str_to_asset" => IsAsset(last.ret) /\ last.ret = last.encoded

\* C10: Round trip 2: for every string that asset_to_str returned for a
\* constructible asset, str_to_asset returns an asset, and asset_to_str of
\* that asset is the same string, character for character.
C10_RoundTrip2 ==
    last.op = "str_to_asset" =>
        IsAsset(last.ret) /\ asset_to_str(last.ret) = last.string

----------------------------------------------------------------------------
(* Strings from the wire: a caller holds an asset, decodes the strings it  *)
(* receives with str_to_asset, builds assets with the constructors, and    *)
(* encodes the asset it holds.                                             *)

\* the strings asset_to_str writes
WireCanonical == {asset_to_str(a) : a \in CodecLeaves \cup CodecKids}

\* such strings with text around them
WirePadded ==
    {<<" ">> \o s \o <<" ">> : s \in {asset_to_str(a) : a \in CodecKids}}
        \cup {s \o <<"x">> : s \in {asset_to_str(a) : a \in CodecKids}}

\* rationals that are well formed but not as asset_to_str writes them: not
\* in lowest terms, signed, padded, the sign on the denominator
WireRationals ==
    {<<"C", "o", "n", "s", "t", "a", "n", "t", "A", "s", "s", "e", "t", "(", "2", "/", "4", ")">>,
     <<"C", "o", "n", "s", "t", "a", "n", "t", "A", "s", "s", "e", "t", "(", "+", "1", ")">>,
     <<"C", "o", "n", "s", "t", "a", "n", "t", "A", "s", "s", "e", "t", "(", " ", "1", " ", ")">>,
     <<"C", "o", "n", "s", "t", "a", "n", "t", "A", "s", "s", "e", "t", "(", "1", "/", "-", "2", ")">>}

\* rational literals that are malformed: a third part, a zero denominator,
\* a missing part, not a number
WireBadRationals ==
    {<<"C", "o", "n", "s", "t", "a", "n", "t", "A", "s", "s", "e", "t", "(", "1", "/", "2", "/", "3", ")">>,
     <<"C", "o", "n", "s", "t", "a", "n", "t", "A", "s", "s", "e", "t", "(", "1", "/", "0", ")">>,
     <<"C", "o", "n", "s", "t", "a", "n", "t", "A", "s", "s", "e", "t", "(", "x", ")">>,
     <<"C", "o", "n", "s", "t", "a", "n", "t", "A", "s", "s", "e", "t", "(", ")">>,
     <<"C", "o", "n", "s", "t", "a", "n", "t", "A", "s", "s", "e", "t", "(", "1", "/", ")">>,
     <<"S", "a", "t", "i", "s", "f", "i", "e", "d", "B", "y", "A", "s", "s", "e", "t", "(", "\"", "t", "\"", ",", "1", "/", "x", ")">>}

\* an unknown prefix, no prefix, the empty string
WireUnknown ==
    {<<"F", "o", "o", "(", "1", ")">>,
     <<"c", "o", "n", "s", "t", "a", "n", "t", "a", "s", "s", "e", "t", "(", "1", ")">>,
     <<"1">>,
     <<>>}

\* parentheses and brackets that do not match
WireUnmatched ==
    {<<"C", "o", "n", "s", "t", "a", "n", "t", "A", "s", "s", "e", "t", "(", "1">>,
     <<"C", "o", "n", "s", "t", "a", "n", "t", "A", "s", "s", "e", "t", "(", "1", ")", ")">>,
     <<"S", "a", "t", "i", "s", "f", "i", "e", "d", "B", "y", "A", "s", "s", "e", "t", "(", "\"", "t", "\"", ",", "1">>,
     <<"M", "a", "x", "A", "s", "s", "e", "t", "(", "[", "C", "o", "n", "s", "t", "a", "n", "t", "A", "s", "s", "e", "t", "(", "1", ")">>,
     <<"M", "a", "x", "A", "s", "s", "e", "t", "(", "[", "C", "o", "n", "s", "t", "a", "n", "t", "A", "s", "s", "e", "t", "(", "1", ")", ")">>,
     <<"M", "a", "x", "A", "s", "s", "e", "t", "(", "C", "o", "n", "s", "t", "a", "n", "t", "A", "s", "s", "e", "t", "(", "1", ")", "]", ")">>,
     <<"A", "g", "e", "n", "t", "s", "S", "a", "t", "i", "s", "f", "y", "B", "y", "A", "s", "s", "e", "t", "(", "\"", "t", "\"", ",", "[", "\"", "a", "\"", ",", "1", ")">>,
     <<"L", "i", "n", "e", "a", "r", "C", "o", "m", "b", "i", "n", "a", "t", "i", "o", "n", "A", "s", "s", "e", "t", "(", "[", "(", "1", ",", "C", "o", "n", "s", "t", "a", "n", "t", "A", "s", "s", "e", "t", "(", "1", ")", ")">>,
     <<"L", "i", "n", "e", "a", "r", "C", "o", "m", "b", "i", "n", "a", "t", "i", "o", "n", "A", "s", "s", "e", "t", "(", "[", "(", "1", ",", "C", "o", "n", "s", "t", "a", "n", "t", "A", "s", "s", "e", "t", "(", "1", ")", "]", ")">>}

\* too few and too many arguments
WireArity ==
    {<<"S", "a", "t", "i", "s", "f", "i", "e", "d", "B", "y", "A", "s", "s", "e", "t", "(", "\"", "t", "\"", ")">>,
     <<"S", "a", "t", "i", "s", "f", "i", "e", "d", "B", "y", "A", "s", "s", "e", "t", "(", ")">>,
     <<"S", "a", "t", "i", "s", "f", "i", "e", "d", "B", "y", "A", "s", "s", "e", "t", "(", "\"", "t", "\"", ",", "1", ",", "2", ")">>,
     <<"T", "i", "m", "e", "R", "e", "m", "a", "i", "n", "i", "n", "g", "A", "s", "s", "e", "t", "(", "\"", "t", "\"", ",", "1", ",", "2", ")">>,
     <<"A", "g", "e", "n", "t", "s", "S", "a", "t", "i", "s", "f", "y", "B", "y", "A", "s", "s", "e", "t", "(", "\"", "t", "\"", ",", "1", ")">>,
     <<"A", "g", "e", "n", "t", "s", "S", "a", "t", "i", "s", "f", "y", "B", "y", "A", "s", "s", "e", "t", "(", "\"", "t", "\"", ",", "[", "\"", "a", "\"", "]", ",", "1", ",", "2", ")">>,
     <<"P", "r", "i", "c", "e", "y", "S", "a", "t", "i", "s", "f", "i", "e", "d", "B", "y", "A", "s", "s", "e", "t", "(", "\"", "t", "\"", ",", "1", ")">>,
     <<"P", "r", "i", "c", "e", "y", "S", "a", "t", "i", "s", "f", "i", "e", "d", "B", "y", "A", "s", "s", "e", "t", "(", "\"", "t", "\"", ",", "1", ",", "2", ",", "3", ")">>,
     <<"P", "r", "i", "c", "e", "y", "T", "i", "m", "e", "R", "e", "m", "a", "i", "n", "i", "n", "g", "A", "s", "s", "e", "t", "(", "\"", "t", "\"", ",", "1", ",", "2", ")">>,
     <<"P", "r", "i", "c", "e", "y", "T", "i", "m", "e", "R", "e", "m", "a", "i", "n", "i", "n", "g", "A", "s", "s", "e", "t", "(", "\"", "t", "\"", ",", "1", ",", "2", ",", "4", ",", "5", ")">>,
     <<"L", "i", "n", "e", "a", "r", "C", "o", "m", "b", "i", "n", "a", "t", "i", "o", "n", "A", "s", "s", "e", "t", "(", "[", "(", "1", ")", "]", ")">>,
     <<"L", "i", "n", "e", "a", "r", "C", "o", "m", "b", "i", "n", "a", "t", "i", "o", "n", "A", "s", "s", "e", "t", "(", "[", "(", "1", ",", "C", "o", "n", "s", "t", "a", "n", "t", "A", "s", "s", "e", "t", "(", "1", ")", ",", "2", ")", "]", ")">>,
     <<"L", "i", "n", "e", "a", "r", "C", "o", "m", "b", "i", "n", "a", "t", "i", "o", "n", "A", "s", "s", "e", "t", "(", "[", "(", ")", "]", ")">>}

\* quoted strings that are malformed: no quotes, no closing or opening
\* quote, an unknown escape, a list of strings with a stray comma
WireBadQuoted ==
    {<<"S", "a", "t", "i", "s", "f", "i", "e", "d", "B", "y", "A", "s", "s", "e", "t", "(", "t", ",", "1", ")">>,
     <<"S", "a", "t", "i", "s", "f", "i", "e", "d", "B", "y", "A", "s", "s", "e", "t", "(", "\"", "t", ",", "1", ")">>,
     <<"S", "a", "t", "i", "s", "f", "i", "e", "d", "B", "y", "A", "s", "s", "e", "t", "(", "\"", "t", "\\", "x", "\"", ",", "1", ")">>,
     <<"S", "a", "t", "i", "s", "f", "i", "e", "d", "B", "y", "A", "s", "s", "e", "t", "(", "t", "\"", ",", "1", ")">>,
     <<"A", "g", "e", "n", "t", "s", "S", "a", "t", "i", "s", "f", "y", "B", "y", "A", "s", "s", "e", "t", "(", "\"", "t", "\"", ",", "[", "\"", "a", "\"", ",", "]", ",", "1", ")">>}

\* JSON values written otherwise than json.dumps writes them, or that are
\* not strings
WireQuoted ==
    {<<"A", "g", "e", "n", "t", "s", "S", "a", "t", "i", "s", "f", "y", "B", "y", "A", "s", "s", "e", "t", "(", "\"", "t", "\"", ",", "[", "\"", "a", "\"", ",", "\"", "t", "\"", "]", ",", "1", ")">>,
     <<"A", "g", "e", "n", "t", "s", "S", "a", "t", "i", "s", "f", "y", "B", "y", "A", "s", "s", "e", "t", "(", "\"", "t", "\"", ",", " ", "[", "\"", "a", "\"", "]", ",", " ", "1", ")">>,
     <<"S", "a", "t", "i", "s", "f", "i", "e", "d", "B", "y", "A", "s", "s", "e", "t", "(", "1", ",", "2", ")">>,
     <<"S", "a", "t", "i", "s", "f", "i", "e", "d", "B", "y", "A", "s", "s", "e", "t", "(", "n", "u", "l", "l", ",", "2", ")">>,
     <<"S", "a", "t", "i", "s", "f", "i", "e", "d", "B", "y", "A", "s", "s", "e", "t", "(", "[", "\"", "t", "\"", "]", ",", "2", ")">>}

\* constructor arguments the constructors refuse
WireRefused ==
    {<<"M", "a", "x", "A", "s", "s", "e", "t", "(", "[", "]", ")">>,
     <<"M", "i", "n", "A", "s", "s", "e", "t", "(", "[", "]", ")">>,
     <<"M", "a", "x", "A", "s", "s", "e", "t", "(", "[", " ", "]", ")">>,
     <<"M", "a", "x", "A", "s", "s", "e", "t", "(", ")">>,
     <<"P", "r", "i", "c", "e", "y", "T", "i", "m", "e", "R", "e", "m", "a", "i", "n", "i", "n", "g", "A", "s", "s", "e", "t", "(", "\"", "t", "\"", ",", "2", ",", "1", ",", "4", ")">>,
     <<"P", "r", "i", "c", "e", "y", "T", "i", "m", "e", "R", "e", "m", "a", "i", "n", "i", "n", "g", "A", "s", "s", "e", "t", "(", "\"", "t", "\"", ",", "1", ",", "1", ",", "4", ")">>,
     <<"P", "r", "i", "c", "e", "y", "T", "i", "m", "e", "R", "e", "m", "a", "i", "n", "i", "n", "g", "A", "s", "s", "e", "t", "(", "\"", "t", "\"", ",", "1", ",", "2", ",", "0", ")">>,
     <<"P", "r", "i", "c", "e", "y", "T", "i", "m", "e", "R", "e", "m", "a", "i", "n", "i", "n", "g", "A", "s", "s", "e", "t", "(", "\"", "t", "\"", ",", "1", ",", "2", ",", "-", "4", ")">>,
     <<"M", "i", "n", "A", "s", "s", "e", "t", "(", "[", "C", "o", "n", "s", "t", "a", "n", "t", "A", "s", "s", "e", "t", "(", "1", ")", ",", "P", "r", "i", "c", "e", "y", "T", "i", "m", "e", "R", "e", "m", "a", "i", "n", "i", "n", "g", "A", "s", "s", "e", "t", "(", "\"", "t", "\"", ",", "2", ",", "1", ",", "4", ")", "]", ")">>,
     <<"L", "i", "n", "e", "a", "r", "C", "o", "m", "b", "i", "n", "a", "t", "i", "o", "n", "A", "s", "s", "e", "t", "(", "[", "(", "1", ",", "M", "a", "x", "A", "s", "s", "e", "t", "(", "[", "]", ")", ")", "]", ")">>}

\* lists with stray separators or padding
WireLists ==
    {<<"M", "i", "n", "A", "s", "s", "e", "t", "(", "[", "C", "o", "n", "s", "t", "a", "n", "t", "A", "s", "s", "e", "t", "(", "1", ")", ",", "]", ")">>,
     <<"M", "i", "n", "A", "s", "s", "e", "t", "(", "[", ",", "C", "o", "n", "s", "t", "a", "n", "t", "A", "s", "s", "e", "t", "(", "1", ")", "]", ")">>,
     <<"M", "a", "x", "A", "s", "s", "e", "t", "(", " ", "[", "C", "o", "n", "s", "t", "a", "n", "t", "A", "s", "s", "e", "t", "(", "1", ")", "]", " ", ")">>,
     <<"M", "a", "x", "A", "s", "s", "e", "t", "(", "[", " ", "C", "o", "n", "s", "t", "a", "n", "t", "A", "s", "s", "e", "t", "(", "1", ")", " ", ",", " ", "C", "o", "n", "s", "t", "a", "n", "t", "A", "s", "s", "e", "t", "(", "2", ")", " ", "]", ")">>,
     <<"L", "i", "n", "e", "a", "r", "C", "o", "m", "b", "i", "n", "a", "t", "i", "o", "n", "A", "s", "s", "e", "t", "(", "[", " ", "(", "1", ",", "C", "o", "n", "s", "t", "a", "n", "t", "A", "s", "s", "e", "t", "(", "1", ")", ")", " ", "]", ")">>,
     <<"L", "i", "n", "e", "a", "r", "C", "o", "m", "b", "i", "n", "a", "t", "i", "o", "n", "A", "s", "s", "e", "t", "(", "[", "(", "1", ",", " ", "C", "o", "n", "s", "t", "a", "n", "t", "A", "s", "s", "e", "t", "(", "1", ")", ")", "]", ")">>,
     <<"L", "i", "n", "e", "a", "r", "C", "o", "m", "b", "i", "n", "a", "t", "i", "o", "n", "A", "s", "s", "e", "t", "(", " ", "[", "]", " ", ")">>}

WireMalformed ==
    WireRationals \cup WireBadRationals \cup WireUnknown \cup WireUnmatched \cup WireArity
        \cup WireBadQuoted \cup WireQuoted \cup WireRefused \cup WireLists

WireStrings == WireCanonical \cup WirePadded \cup WireMalformed

InitWire ==
    /\ asset = ConstantAsset(F(0))
    /\ target_success = [t \in {} |-> None]
    /\ watermark_time = F(0)
    /\ last = NoCall
    /\ client = NoClient

\* str_to_asset over the strings received, evaluated once for each string
WireDecoded == [string \in WireStrings |-> str_to_asset(string)]

\* str_to_asset(string) for a received string; the asset it returns is the
\* one the caller holds from then on
Receive ==
    /\ \E string \in WireStrings :
           \E ret \in {WireDecoded[string]} :
               /\ last' = [op |-> "str_to_asset", string |-> string, ret |-> ret]
               /\ asset' = IF IsAsset(ret) THEN ret ELSE asset
    /\ UNCHANGED <<target_success, watermark_time, client>>

\* the constructor calls the caller makes: the class and the arguments,
\* among them the arguments the constructors refuse
ConstructorCalls ==
    {<<tag, <<assets>>>> : tag \in ListTags,
                           assets \in {<<>>, <<ConstantAsset(F(1))>>,
                                       <<ConstantAsset(F(1)), LinearCombinationAsset(<<>>)>>}}
        \cup {<<"LinearCombinationAsset", <<terms>>>> :
                 terms \in {<<>>, <<<<F(-1), ConstantAsset(F(1))>>>>}}
        \cup {<<"PriceyTimeRemainingAsset", <<JStr(<<"t">>), break_even_time, stop_time, max_loss>>>> :
                 break_even_time \in {F(1), F(2)}, stop_time \in {F(1), F(2)},
                 max_loss \in {F(-4), F(0), Fraction(1, 2)}}
        \cup {<<"SatisfiedByAsset", <<JStr(<<"t">>), F(-1)>>>>,
              <<"PriceySatisfiedByAsset", <<JStr(<<"t">>), F(0), F(-1)>>>>}

\* Class(*args)
construct(tag, args) ==
    CASE tag = "ConstantAsset" -> ConstantAsset(args[1])
      [] tag = "SatisfiedByAsset" -> SatisfiedByAsset(args[1], args[2])
      [] tag = "AgentsSatisfyByAsset" -> AgentsSatisfyByAsset(args[1], args[2], args[3])
      [] tag = "TimeRemainingAsset" -> TimeRemainingAsset(args[1], args[2])
      [] tag = "MaxAsset" -> MaxAsset(args[1])
      [] tag = "MinAsset" -> MinAsset(args[1])
      [] tag = "LinearCombinationAsset" -> LinearCombinationAsset(args[1])
      [] tag = "PriceySatisfiedByAsset" -> PriceySatisfiedByAsset(args[1], args[2], args[3])
      [] tag = "PriceyTimeRemainingAsset" ->
            PriceyTimeRemainingAsset(args[1], args[2], args[3], args[4])

\* a constructor call; the asset it returns is the one the caller holds
\* from then on
Construct ==
    /\ \E call \in ConstructorCalls :
           \E ret \in {construct(call[1], call[2])} :
               /\ last' = [op |-> "__init__", class |-> call[1], args |-> call[2],
                           ret |-> ret]
               /\ asset' = IF IsAsset(ret) THEN ret ELSE asset
    /\ UNCHANGED <<target_success, watermark_time, client>>

NextWire == Receive \/ Encode \/ Construct

SpecWire == InitWire /\ [][NextWire]_vars

\* C11: for every string for which str_to_asset returns an asset and not
\* an error, asset_to_str of that asset is the string itself.
C11_DecodedReencodes ==
    (last.op = "str_to_asset" /\ IsAsset(last.ret)) =>
        asset_to_str(last.ret) = last.string

\* no MaxAsset or MinAsset of the tree has an empty list, and every
\* PriceyTimeRemainingAsset has stop_time > break_even_time and max_loss > 0
RECURSIVE ConstructionInvariants(_)
ConstructionInvariants(a) ==
    CASE a.tag \in ListTags ->
            /\ Len(a.assets) > 0
            /\ \A i \in 1..Len(a.assets) : ConstructionInvariants(a.assets[i])
      [] a.tag = "LinearCombinationAsset" ->
            \A i \in 1..Len(a.terms) : ConstructionInvariants(a.terms[i][2])
      [] a.tag = "PriceyTimeRemainingAsset" ->
            FLt(a.break_even_time, a.stop_time) /\ FLt(F(0), a.max_loss)
      [] OTHER -> TRUE

\* the arguments of a constructor call break the class's invariants
RefusedArguments(class, args) ==
    \/ class \in ListTags /\ Len(args[1]) = 0
    \/ /\ class = "PriceyTimeRemainingAsset"
       /\ (FLe(args[3], args[2]) \/ FLe(args[4], F(0)))

\* C13: construction invariants fail fast.  Constructing a MaxAsset or a
\* MinAsset with an empty list, or a PriceyTimeRemainingAsset with
\* stop_time <= break_even_time or max_loss <= 0, raises; so the asset a
\* caller holds, and every asset a constructor or str_to_asset returns,
\* has no such node.
C13_ConstructionInvariants ==
    /\ (last.op = "__init__" /\ RefusedArguments(last.class, last.args)) =>
           last.ret = AssertionError
    /\ (last.op \in {"__init__", "str_to_asset"} /\ IsAsset(last.ret)) =>
           ConstructionInvariants(last.ret)
    /\ ConstructionInvariants(asset)

\* a refused construction: an empty list, or a stop_time equal to the
\* break_even_time with a positive max_loss
C13_Witness ==
    /\ last.op = "__init__"
    /\ last.ret = AssertionError
    /\ \/ last.class = "MinAsset" /\ last.args[1] = <<>>
       \/ /\ last.class = "PriceyTimeRemainingAsset"
          /\ last.args[2] = last.args[3]
          /\ FLt(F(0), last.args[4])

\* C14: decode errors.  For every input with an unknown variant prefix, an
\* unmatched parenthesis or bracket, a malformed rational literal, too few
\* or too many arguments for the variant, or a malformed quoted string,
\* str_to_asset raises and returns no asset.
C14_DecodeErrors ==
    (/\ last.op = "str_to_asset"
     /\ last.string \in WireUnknown \cup WireUnmatched \cup WireBadRationals
                           \cup WireArity \cup WireBadQuoted) =>
        Raised(last.ret)

\* C15: simplify never mutates its receiver.  After a simplify call has
\* returned or failed, the receiver and every node below it have the variant,
\* fields, children and child order they had before the call, and the call
\* left the snapshot as it was.
C15_ReceiverUnchanged ==
    /\ [](last.op = "simplify" => last.after = last.self)
    /\ [][last'.op = "simplify" => target_success' = target_success]_vars

\* a composite with a composite child whose simplify returned another asset
C15_Witness ==
    /\ Returned
    /\ IsComposite(last.self)
    /\ \E c \in Children(last.self) : IsComposite(c)
    /\ last.ret # last.self
    /\ last.after = last.self

----------------------------------------------------------------------------
(* AgoraClient and AsyncAgoraClient (src/src/agora/_client.py) and          *)
(* exception_from_response (src/src/agora/_exceptions.py)                   *)

\* Python values the client handles: None, a str, a bool, a dict with str keys
PyNone == [py |-> "NoneType"]

PyStr(s) == [py |-> "str", s |-> s]

PyBool(b) == [py |-> "bool", b |-> b]

PyDict(items) == [py |-> "dict", items |-> items]

\* str(v)
py_str(v) ==
    CASE v.py = "str" -> v.s
      [] v.py = "NoneType" -> "None"
      [] v.py = "bool" -> IF v.b THEN "True" ELSE "False"

\* payload.get(key)
dict_get(payload, key) ==
    IF key \in DOMAIN payload.items THEN payload.items[key] ELSE PyNone

ClientClasses == {"AgoraClient", "AsyncAgoraClient"}

Tokens == {PyStr("token"), PyStr("next")}

\* set_token: config.token and the session's Authorization header
set_token(self, token) ==
    [self EXCEPT
        !.config.token = token,
        !.headers = [h \in DOMAIN self.headers \cup {"Authorization"} |->
                        IF h = "Authorization" THEN "Bearer " \o py_str(token)
                        ELSE self.headers[h]]]

\* a clear_token that pops the header and keeps config.token
clear_token_header_only(self) ==
    [self EXCEPT
        !.headers = [h \in DOMAIN self.headers \ {"Authorization"} |-> self.headers[h]]]

\* clear_token: config.token = None; headers.pop("Authorization", None)
clear_token(self) ==
    [self EXCEPT
        !.config.token = PyNone,
        !.headers = [h \in DOMAIN self.headers \ {"Authorization"} |-> self.headers[h]]]

\* __init__(base_url, token) of either class, with a non-empty base_url, in
\* a process whose os.environ.get("AGORA_API_KEY") is environ
client_init(class, token, environ) ==
    LET self == [class |-> class,
                 config |-> [token |-> token],
                 headers |-> [h \in {"Accept"} |-> "application/json"]]
        given == IF token = PyNone THEN environ ELSE token
    IN  IF given = PyNone THEN self ELSE set_token(self, given)

\* exception_from_response without exc_map: the class by range alone
exception_from_response_by_range(status_code, message, payload) ==
    [tag |-> IF 500 <= status_code /\ status_code <= 599 THEN "ServerError"
             ELSE IF 400 <= status_code /\ status_code <= 499 THEN "ClientError"
             ELSE "AgoraHTTPError",
     message |-> message, status_code |-> status_code, payload |-> payload]

\* exception_from_response: the exception object, tag its class
exception_from_response(status_code, message, payload) ==
    [tag |-> CASE status_code = 400 -> "BadRequestError"
               [] status_code = 401 -> "UnauthorizedError"
               [] status_code = 403 -> "ForbiddenError"
               [] status_code = 404 -> "NotFoundError"
               [] status_code = 409 -> "ConflictError"
               [] status_code = 422 -> "ValidationError"
               [] status_code = 429 -> "RateLimitError"
               [] OTHER ->
                    IF 500 <= status_code /\ status_code <= 599 THEN "ServerError"
                    ELSE IF 400 <= status_code /\ status_code <= 499 THEN "ClientError"
                    ELSE "AgoraHTTPError",
     message |-> message, status_code |-> status_code, payload |-> payload]

\* resp.ok of requests and "not resp.is_error" of httpx: the status is
\* outside 400..599
ok(status_code) == ~(400 <= status_code /\ status_code <= 599)

\* _request of either class on the response resp the session returned:
\* Ok(payload) when it returns, the exception when it raises
request(self, resp) ==
    IF resp.status_code = 204 THEN Ok(PyNone)
    ELSE LET payload == IF resp.json = ValueError THEN PyStr(resp.text) ELSE resp.json
             detail == IF payload.py = "dict" THEN dict_get(payload, "detail")
                       ELSE PyStr(py_str(payload))
             message == IF detail = PyNone THEN "" ELSE py_str(detail)
         IN  IF ~ok(resp.status_code)
             THEN exception_from_response(resp.status_code, message, payload)
             ELSE Ok(payload)

StatusCodes ==
    {200, 201, 204, 301, 400, 401, 403, 404, 409, 418, 422, 429, 499, 500, 503, 599}

\* response bodies: resp.text and what resp.json() gives for that text, the
\* parsed value or ValueError
Bodies ==
    {[text |-> "no json", json |-> ValueError],
     [text |-> "", json |-> ValueError],
     [text |-> "{\"detail\": \"bad token\"}",
      json |-> PyDict([k \in {"detail"} |-> PyStr("bad token")])],
     [text |-> "{\"detail\": null}", json |-> PyDict([k \in {"detail"} |-> PyNone])],
     [text |-> "{\"detail\": true}", json |-> PyDict([k \in {"detail"} |-> PyBool(TRUE)])],
     [text |-> "{\"ok\": true}", json |-> PyDict([k \in {"ok"} |-> PyBool(TRUE)])],
     [text |-> "{}", json |-> PyDict([k \in {} |-> PyNone])],
     [text |-> "null", json |-> PyNone],
     [text |-> "true", json |-> PyBool(TRUE)],
     [text |-> "\"bad token\"", json |-> PyStr("bad token")]}

Responses ==
    {[status_code |-> s, text |-> b.text, json |-> b.json] : s \in StatusCodes, b \in Bodies}

\* a client just constructed
InitClient ==
    /\ asset = ConstantAsset(F(0))
    /\ target_success = [t \in {} |-> None]
    /\ watermark_time = F(0)
    /\ \E class \in ClientClasses, token \in Tokens \cup {PyNone},
          environ \in Tokens \cup {PyNone} :
        /\ client = client_init(class, token, environ)
        /\ last = [op |-> "__init__", class |-> class, token |-> token,
                   environ |-> environ]

SetToken ==
    /\ \E token \in Tokens :
        /\ client' = set_token(client, token)
        /\ last' = [op |-> "set_token", self |-> client, token |-> token]
    /\ UNCHANGED <<asset, target_success, watermark_time>>

ClearToken ==
    /\ client' = clear_token(client)
    /\ last' = [op |-> "clear_token", self |-> client]
    /\ UNCHANGED <<asset, target_success, watermark_time>>

\* self._request(method, path) when the session answers with resp
Request ==
    /\ \E resp \in Responses :
        last' = [op |-> "_request", self |-> client, resp |-> resp,
                 out |-> request(client, resp)]
    /\ UNCHANGED <<asset, target_success, watermark_time, client>>

NextClient == SetToken \/ ClearToken \/ Request

SpecClient == InitClient /\ [][NextClient]_vars

\* the session's Authorization header, None when absent
Authorization(self) ==
    IF "Authorization" \in DOMAIN self.headers
    THEN PyStr(self.headers["Authorization"])
    ELSE PyNone

\* C16: token/header agreement.  After construction and after every
\* set_token and clear_token of either client class, the Authorization
\* header is "Bearer <t>" for the argument t of the most recent set_token
\* (the constructor's token, or else the environment's key, when the
\* constructor made the call) if no clear_token followed it and is absent
\* otherwise; config.token is None exactly when the header is absent; a
\* request leaves both as they were.
C16_TokenHeaderAgreement ==
    /\ (client.config.token = PyNone) <=> (Authorization(client) = PyNone)
    /\ last.op = "set_token" =>
            Authorization(client) = PyStr("Bearer " \o last.token.s)
    /\ last.op = "clear_token" => Authorization(client) = PyNone
    /\ last.op = "__init__" =>
            Authorization(client) =
                IF last.token # PyNone THEN PyStr("Bearer " \o last.token.s)
                ELSE IF last.environ # PyNone THEN PyStr("Bearer " \o last.environ.s)
                ELSE PyNone
    /\ last.op = "_request" => client = last.self

\* a client that held no token and is given one
C16_Witness ==
    /\ last.op = "set_token"
    /\ last.self.config.token = PyNone
    /\ Authorization(last.self) = PyNone
    /\ client.config.token = PyStr("next")
    /\ Authorization(client) = PyStr("Bearer next")

\* the exception class the mapping names for an error status
ErrorClass(status_code) ==
    IF status_code \in {400, 401, 403, 404, 409, 422, 429}
    THEN [s \in {400, 401, 403, 404, 409, 422, 429} |->
            CASE s = 400 -> "BadRequestError" [] s = 401 -> "UnauthorizedError"
              [] s = 403 -> "ForbiddenError" [] s = 404 -> "NotFoundError"
              [] s = 409 -> "ConflictError" [] s = 422 -> "ValidationError"
              [] s = 429 -> "RateLimitError"][status_code]
    ELSE IF status_code \in 500..599 THEN "ServerError" ELSE "ClientError"

\* the body of the response is a JSON object
IsJsonObject(resp) == resp.json # ValueError /\ resp.json.py = "dict"

HasParenthesis(id) == \E i \in 1..Len(id.chars) : id.chars[i] \in {"(", ")"}

\* C18: str_to_asset finds the closing parenthesis of the argument list by a
\* depth count that ignores what is inside quoted strings, so an encoded
\* asset with a target id or an agent id that holds "(" or ")", balanced or
\* not, decodes to the asset that was encoded.
C18_QuotedParentheses ==
    (/\ last.op = "str_to_asset"
     /\ \/ \E t \in referenced_target_ids(last.encoded) : HasParenthesis(t)
        \/ /\ last.encoded.tag = "AgentsSatisfyByAsset"
           /\ \E i \in 1..Len(last.encoded.agent_ids) :
                HasParenthesis(last.encoded.agent_ids[i])) =>
        last.ret = last.encoded

\* C19: the deadline rule, with a strict boundary.  simplify of a leaf whose
\* target the snapshot holds unresolved returns the variant's failure
\* constant (0 for SatisfiedBy, AgentsSatisfyBy and TimeRemaining, -price
\* for PriceySatisfiedBy, -max_loss for PriceyTimeRemaining) when
\* watermark_time > stop_time, and the asset unchanged when
\* watermark_time <= stop_time, equality included.
C19_StrictDeadline ==
    (/\ Returned
     /\ last.self.tag \in LeafTags
     /\ ~target_success[last.self.target].resolved) =>
        IF FLt(last.self.stop_time, watermark_time)
        THEN last.ret =
                ConstantAsset(CASE last.self.tag = "PriceySatisfiedByAsset" ->
                                        FNeg(last.self.price)
                                [] last.self.tag = "PriceyTimeRemainingAsset" ->
                                        FNeg(last.self.max_loss)
                                [] OTHER -> F(0))
        ELSE last.ret = last.self

\* a PriceyTimeRemaining simplified with the watermark on its stop_time
C19_Witness ==
    /\ Returned
    /\ last.self.tag = "PriceyTimeRemainingAsset"
    /\ ~target_success[last.self.target].resolved
    /\ watermark_time = last.self.stop_time
    /\ last.ret = last.self

\* C20: a resolution takes precedence over the watermark.  simplify of a
\* leaf whose target the snapshot holds resolved returns a constant, and the
\* same constant whatever the watermark.
C20_ResolutionFirst ==
    (/\ Returned
     /\ last.self.tag \in LeafTags
     /\ target_success[last.self.target].resolved) =>
        /\ IsConstant(last.ret)
        /\ \A w \in Watermarks : simplify(last.self, target_success, w) = last.ret

\* an AgentsSatisfyBy proven on time by a listed agent, simplified with the
\* watermark past its stop_time
C20_Witness ==
    /\ Returned
    /\ last.self.tag = "AgentsSatisfyByAsset"
    /\ target_success[last.self.target].resolved
    /\ FLt(last.self.stop_time, watermark_time)
    /\ last.ret = ConstantAsset(F(1))

\* C21: simplify of an AgentsSatisfyBy whose target is resolved returns
\* Constant(1) exactly when the resolution time is at most stop_time and the
\* resolver is one of agent_ids, and Constant(0) in every other resolved
\* case: a late resolution, a resolver not listed, no resolver, no agent_ids.
C21_AgentsResolved ==
    (/\ Returned
     /\ last.self.tag = "AgentsSatisfyByAsset"
     /\ target_success[last.self.target].resolved) =>
        LET fact == target_success[last.self.target]
            listed == fact.author \in {last.self.agent_ids[i] :
                                            i \in 1..Len(last.self.agent_ids)}
        IN  last.ret = IF FLe(fact.proven_time, last.self.stop_time) /\ listed
                       THEN ConstantAsset(F(1))
                       ELSE ConstantAsset(F(0))

\* resolved on time by an agent the non-empty agent_ids does not list
C21_Witness ==
    /\ Returned
    /\ last.self.tag = "AgentsSatisfyByAsset"
    /\ last.self.agent_ids # <<>>
    /\ target_success[last.self.target].resolved
    /\ target_success[last.self.target].author = "carol"
    /\ FLe(target_success[last.self.target].proven_time, last.self.stop_time)
    /\ last.ret = ConstantAsset(F(0))

\* C22: simplify of a TimeRemaining whose target is resolved returns
\* Constant(stop_time - resolution time) when the resolution time is at most
\* stop_time and Constant(0) otherwise; the constant is never negative.
C22_TimeRemainingResolved ==
    (/\ Returned
     /\ last.self.tag = "TimeRemainingAsset"
     /\ target_success[last.self.target].resolved) =>
        LET t == target_success[last.self.target].proven_time
        IN  /\ last.ret = IF FLe(t, last.self.stop_time)
                          THEN ConstantAsset(FSub(last.self.stop_time, t))
                          ELSE ConstantAsset(F(0))
            /\ FLe(F(0), last.ret.constant)

\* a TimeRemaining resolved before its stop_time, with time left
C22_Witness ==
    /\ Returned
    /\ last.self.tag = "TimeRemainingAsset"
    /\ target_success[last.self.target].resolved
    /\ FLt(target_success[last.self.target].proven_time, last.self.stop_time)
    /\ IsConstant(last.ret)
    /\ FLt(F(0), last.ret.constant)
    /\ FLt(last.ret.constant, last.self.stop_time)

\* C23: simplify of a PriceyTimeRemaining whose target is resolved at time t
\* returns Constant(max_loss * ((stop_time - t) / (stop_time -
\* break_even_time) - 1)) when t <= stop_time and Constant(-max_loss) when
\* t > stop_time: 0 at t = break_even_time, -max_loss at t = stop_time,
\* positive for t < break_even_time, never below -max_loss.
C23_PriceyTimeRemainingResolved ==
    (/\ Returned
     /\ last.self.tag = "PriceyTimeRemainingAsset"
     /\ target_success[last.self.target].resolved) =>
        LET t == target_success[last.self.target].proven_time
            a == last.self
        IN  /\ last.ret =
                 IF FLe(t, a.stop_time)
                 THEN ConstantAsset(
                        FMul(a.max_loss,
                             FSub(FDiv(FSub(a.stop_time, t),
                                       FSub(a.stop_time, a.break_even_time)),
                                  F(1))))
                 ELSE ConstantAsset(FNeg(a.max_loss))
            /\ t = a.break_even_time => last.ret.constant = F(0)
            /\ t = a.stop_time => last.ret.constant = FNeg(a.max_loss)
            /\ FLt(t, a.break_even_time) => FLt(F(0), last.ret.constant)
            /\ FLe(FNeg(a.max_loss), last.ret.constant)

\* a PriceyTimeRemaining resolved at its break_even_time
C23_Witness ==
    /\ Returned
    /\ last.self.tag = "PriceyTimeRemainingAsset"
    /\ target_success[last.self.target].resolved
    /\ target_success[last.self.target].proven_time = last.self.break_even_time
    /\ last.ret = ConstantAsset(F(0))

\* C24: simplify of a MaxAsset or MinAsset simplifies every child with the
\* same snapshot and watermark; when every simplified child is a constant
\* the result is the constant max (min) of their values, so that
\* Max([Constant(2), Constant(5)]) gives Constant(5) under any snapshot;
\* otherwise it is a Max (Min) of the simplified children, as many and in
\* the order of the original, the constant ones not folded.
C24_MaxMinPostOrder ==
    (Returned /\ last.self.tag \in ListTags) =>
        LET kids == [i \in 1..Len(last.self.assets) |->
                        simplify(last.self.assets[i], target_success, watermark_time)]
            values == {kids[i].constant : i \in {j \in 1..Len(kids) : IsConstant(kids[j])}}
        IN  /\ IF \A i \in 1..Len(kids) : IsConstant(kids[i])
               THEN /\ IsConstant(last.ret)
                    /\ last.ret.constant \in values
                    /\ \A v \in values :
                        IF last.self.tag = "MaxAsset" THEN FLe(v, last.ret.constant)
                        ELSE FLe(last.ret.constant, v)
               ELSE /\ last.ret.tag = last.self.tag
                    /\ last.ret.assets = kids
            /\ last.self = MaxAsset(<<ConstantAsset(F(2)), ConstantAsset(F(5))>>) =>
                    last.ret = ConstantAsset(F(5))

\* a Min of two children that came back as a Min of a constant and a child
\* that is not constant
C24_Witness ==
    /\ Returned
    /\ last.self.tag = "MinAsset"
    /\ last.ret.tag = "MinAsset"
    /\ Len(last.ret.assets) = 2
    /\ last.ret # last.self
    /\ \E i \in 1..2 : IsConstant(last.ret.assets[i])

\* C25: simplify of a LinearCombinationAsset simplifies the asset of every
\* term; when all are constants the result is the constant sum of
\* coefficient * value, negative and zero coefficients applied as given and
\* the empty sum being 0, so that [(2, Constant(3)), (-1, Constant(1))]
\* gives Constant(5); otherwise it is a LinearCombinationAsset with the
\* same coefficients, as many terms in the same order, and the simplified
\* assets.
C25_LinearCombination ==
    (Returned /\ last.self.tag = "LinearCombinationAsset") =>
        LET terms == last.self.terms
            kids == [i \in 1..Len(terms) |->
                        simplify(terms[i][2], target_success, watermark_time)]
        IN  /\ IF \A i \in 1..Len(kids) : IsConstant(kids[i])
               THEN last.ret = ConstantAsset(
                        FSum([i \in 1..Len(kids) |-> FMul(terms[i][1], kids[i].constant)]))
               ELSE /\ last.ret.tag = "LinearCombinationAsset"
                    /\ last.ret.terms = [i \in 1..Len(terms) |-> <<terms[i][1], kids[i]>>]
            /\ terms = <<>> => last.ret = ConstantAsset(F(0))
            /\ terms = <<<<F(2), ConstantAsset(F(3))>>, <<F(-1), ConstantAsset(F(1))>>>> =>
                    last.ret = ConstantAsset(F(5))

\* two terms with coefficients 2 and -2 over leaves that became constants
\* that are not 0
C25_Witness ==
    /\ Returned
    /\ last.self.tag = "LinearCombinationAsset"
    /\ Len(last.self.terms) = 2
    /\ last.self.terms[1][1] = F(2)
    /\ last.self.terms[2][1] = F(-2)
    /\ \A i \in 1..2 : ~IsConstant(last.self.terms[i][2])
    /\ IsConstant(last.ret)
    /\ last.ret.constant # F(0)

----------------------------------------------------------------------------
(* Bounds over time: a caller holds an asset, asks for its lower_bound and *)
(* upper_bound at the watermark it has reached, and keeps the answers of   *)
(* the call before.                                                        *)

\* watermarks range over 0..MaxWatermark
MaxWatermark == 11

BoundWatermarks == {F(n) : n \in 0..MaxWatermark}

BoundAssets == Assets \cup {PriceyTimeRemainingAsset("t1", F(2), F(10), F(4))}

InitBounds ==
    /\ asset \in BoundAssets
    /\ target_success = [t \in {} |-> None]
    /\ watermark_time = F(0)
    /\ last = NoCall
    /\ client = NoClient

\* asset.lower_bound(watermark_time) and asset.upper_bound(watermark_time)
Bounds ==
    /\ last' = [op |-> "bounds", self |-> asset, w |-> watermark_time,
                lower |-> lower_bound(asset, watermark_time),
                upper |-> upper_bound(asset, watermark_time),
                prev |-> IF last.op = "bounds"
                         THEN [op |-> "bounds", w |-> last.w, lower |-> last.lower,
                               upper |-> last.upper]
                         ELSE NoCall]
    /\ UNCHANGED <<asset, target_success, watermark_time, client>>

\* the watermark advances, the caller keeps what it computed
Later ==
    \E w \in BoundWatermarks :
        /\ FLt(watermark_time, w)
        /\ watermark_time' = w
        /\ UNCHANGED <<asset, target_success, last, client>>

NextBounds == Bounds \/ Later

SpecBounds == InitBounds /\ [][NextBounds]_vars

\* C26 as stated: for PriceyTimeRemaining("t1", break_even 2, stop 10,
\* max_loss 4), lower_bound is -4 at every watermark, upper_bound at
\* watermark 2 is 0, and upper_bound at watermark 0 is 0.5.
C26_PriceyBoundsExample ==
    (/\ last.op = "bounds"
     /\ last.self = PriceyTimeRemainingAsset("t1", F(2), F(10), F(4))) =>
        /\ last.lower = F(-4)
        /\ last.w = F(2) => last.upper = F(0)
        /\ last.w = F(0) => last.upper = Fraction(1, 2)

\* C26, amended: as above, except that upper_bound at watermark 0 is
\* 4 * (10/8 - 1) = 1.
C26_PriceyBoundsExampleValue ==
    (/\ last.op = "bounds"
     /\ last.self = PriceyTimeRemainingAsset("t1", F(2), F(10), F(4))) =>
        /\ last.lower = F(-4)
        /\ last.w = F(2) => last.upper = F(0)
        /\ last.w = F(0) => last.upper = F(1)

\* the bounds of that asset asked at watermark 0
C26_Witness ==
    /\ last.op = "bounds"
    /\ last.self = PriceyTimeRemainingAsset("t1", F(2), F(10), F(4))
    /\ last.w = F(0)
    /\ last.lower = F(-4)
    /\ last.upper = F(1)

\* C29: bounds only tighten as the watermark advances.  For every asset,
\* linear combinations with negative coefficients inside a Max or Min
\* included, and watermarks w1 <= w2, lower_bound(w1) <= lower_bound(w2) and
\* upper_bound(w2) <= upper_bound(w1).
C29_BoundsTighten ==
    (last.op = "bounds" /\ last.prev.op = "bounds") =>
        /\ FLe(last.prev.w, last.w)
        /\ FLe(last.prev.lower, last.lower)
        /\ FLe(last.upper, last.prev.upper)

\* a Max or Min over a linear combination with a negative coefficient whose
\* lower bound rose and whose upper bound fell
C29_Witness ==
    /\ last.op = "bounds"
    /\ last.prev.op = "bounds"
    /\ last.self.tag \in ListTags
    /\ \E c \in Children(last.self) :
        /\ c.tag = "LinearCombinationAsset"
        /\ \E i \in 1..Len(c.terms) : FLt(c.terms[i][1], F(0))
    /\ FLt(last.prev.lower, last.lower)
    /\ FLt(last.upper, last.prev.upper)

\* C27: simplify is idempotent for a fixed snapshot and watermark: the
\* asset a simplify call returned simplifies, under the same snapshot and
\* watermark, to itself.
C27_Idempotent ==
    Returned => simplify(last.ret, target_success, watermark_time) = last.ret

\* a composite over a composite came back as another composite
C27_Witness ==
    /\ Returned
    /\ \E c \in Children(last.self) : IsComposite(c)
    /\ IsComposite(last.ret)
    /\ last.ret # last.self
    /\ simplify(last.ret, target_success, watermark_time) = last.ret

\* the snapshot s2 has the keys of s1, keeps every resolution of s1, and
\* resolves nothing else at a time before w1
Extends(s2, s1, w1) ==
    /\ DOMAIN s2 = DOMAIN s1
    /\ \A t \in DOMAIN s1 :
        IF s1[t].resolved THEN s2[t] = s1[t]
        ELSE s2[t].resolved => FLe(w1, s2[t].proven_time)

\* C28: stepwise simplification agrees with direct simplification.  Let a
\* simplify call on c under snapshot s1 and watermark w1 have returned an
\* asset.  For every watermark w2 >= w1 and every snapshot s2 over the same
\* keys that keeps the resolutions of s1 and resolves further targets only
\* at times >= w1, simplifying the returned asset under s2 and w2 gives
\* what simplifying c under s2 and w2 gives.
C28_StepwiseAgreesWithDirect ==
    Returned =>
        \A s2 \in {s \in Snapshots : Extends(s, target_success, watermark_time)} :
            \A w2 \in {w \in Watermarks : FLe(watermark_time, w)} :
                simplify(last.ret, s2, w2) = simplify(last.self, s2, w2)

\* a composite partly simplified under a snapshot with an unresolved target
\* that a later snapshot resolves, the later simplification being a constant
C28_Witness ==
    /\ Returned
    /\ IsComposite(last.ret)
    /\ last.ret # last.self
    /\ \E s2 \in {s \in Snapshots : Extends(s, target_success, watermark_time)} :
        /\ s2 # target_success
        /\ \E w2 \in Watermarks :
            /\ FLt(watermark_time, w2)
            /\ IsConstant(simplify(last.ret, s2, w2))
            /\ simplify(last.ret, s2, w2) = simplify(last.self, s2, w2)

----------------------------------------------------------------------------
(* Market (src/src/agora/resources/market.py): the conversion of the asset *)
(* strings of a response payload.  A payload is a JSON value as resp.json() *)
(* returns it; a dict is the sequence of its (key, value) items.           *)

JDict(items) == [json |-> "dict", items |-> items]

\* the value is an exception on its way to the caller
Propagates(value) == "tag" \in DOMAIN value /\ Raised(value)

\* _maybe_parse_asset: except ValueError returns the string
maybe_parse_asset(value) ==
    IF value.json # "str" THEN value
    ELSE IF PrefixTags(value.chars) = {} THEN value
    ELSE CHOOSE out \in {IF ret = ValueError THEN value ELSE ret :
                            ret \in {str_to_asset(value.chars)}} : TRUE

\* _convert_asset_strings: the comprehensions stop at the first item that
\* raises
RECURSIVE convert_asset_strings(_)
convert_asset_strings(value) ==
    CASE value.json = "dict" ->
            CHOOSE out \in
                {IF \E i \in 1..Len(vals) : Propagates(vals[i])
                 THEN vals[CHOOSE i \in 1..Len(vals) :
                            Propagates(vals[i]) /\ \A j \in 1..(i - 1) : ~Propagates(vals[j])]
                 ELSE JDict([i \in 1..Len(vals) |-> <<value.items[i][1], vals[i]>>]) :
                    vals \in {[i \in 1..Len(value.items) |->
                                convert_asset_strings(value.items[i][2])]}} : TRUE
      [] value.json = "list" ->
            CHOOSE out \in
                {IF \E i \in 1..Len(vals) : Propagates(vals[i])
                 THEN vals[CHOOSE i \in 1..Len(vals) :
                            Propagates(vals[i]) /\ \A j \in 1..(i - 1) : ~Propagates(vals[j])]
                 ELSE JList(vals) :
                    vals \in {[i \in 1..Len(value.items) |->
                                convert_asset_strings(value.items[i])]}} : TRUE
      [] OTHER -> maybe_parse_asset(value)

\* Market._maybe_convert_assets
maybe_convert_assets(self, payload) ==
    IF ~self.return_asset_objects THEN payload ELSE convert_asset_strings(payload)

\* the strings of a payload: encoded assets, strings without an asset
\* prefix, and strings with a prefix that do not decode
MarketStrings ==
    {asset_to_str(a) : a \in CodecKids} \cup WireUnknown \cup WireArity
        \cup WireRefused \cup WireBadRationals \cup WireUnmatched

\* a string, a value that is no string, a list and a dict holding a string
Payloads ==
    {JStr(s) : s \in MarketStrings}
        \cup {JInt(1), JLiteral(<<"n", "u", "l", "l">>)}
        \cup {JList(<<JInt(1), JStr(s)>>) : s \in MarketStrings}
        \cup {JDict(<<<<"id", JStr(<<"t">>)>>, <<"assets", JList(<<JStr(s)>>)>>>>) :
                s \in MarketStrings}

\* Market(client): return_asset_objects defaults to True
InitMarket ==
    /\ asset = ConstantAsset(F(0))
    /\ target_success = [t \in {} |-> None]
    /\ watermark_time = F(0)
    /\ last = NoCall
    /\ client = [class |-> "Market", return_asset_objects |-> TRUE]

\* market.return_asset_objects = value
SetReturnAssetObjects ==
    /\ \E value \in BOOLEAN :
        client' = [client EXCEPT !.return_asset_objects = value]
    /\ last' = NoCall
    /\ UNCHANGED <<asset, target_success, watermark_time>>

\* a wrapped request whose response holds payload: what the caller gets, or
\* the exception that reaches it
Respond ==
    /\ \E payload \in Payloads :
        last' = [op |-> "_maybe_convert_assets", self |-> client, payload |-> payload,
                 out |-> maybe_convert_assets(client, payload)]
    /\ UNCHANGED <<asset, target_success, watermark_time, client>>

NextMarket == SetReturnAssetObjects \/ Respond

SpecMarket == InitMarket /\ [][NextMarket]_vars

\* C30: market response conversion never fails.  With return_asset_objects
\* enabled no decoding failure reaches the caller; a string of the payload
\* is replaced by the decoded asset when it decodes and is passed through
\* unchanged when it starts with an asset prefix and cannot be decoded
\* (wrong arity, invalid construction values, a bad rational, unbalanced
\* parentheses); values that are no strings and strings without an asset
\* prefix are returned unchanged.
C30_ConversionNeverFails ==
    (last.op = "_maybe_convert_assets" /\ last.self.return_asset_objects) =>
        /\ ~Propagates(last.out)
        /\ last.payload.json = "str" =>
                IF IsAsset(str_to_asset(last.payload.chars))
                    /\ PrefixTags(last.payload.chars) # {}
                THEN last.out = str_to_asset(last.payload.chars)
                ELSE last.out = last.payload
        /\ last.payload.json \in {"int", "literal"} => last.out = last.payload

====
